---- MODULE Spec2Model ----
(***************************************************************************)
(* Model of the notification workflow of teacher_notification_bot:         *)
(* NotificationServiceImpl (internal/app/notification_service.go, the      *)
(* revision starting at line 472), the Postgres notification repository    *)
(* and the schema it runs on.  Every handler of the service is one atomic  *)
(* action of Spec; the store is the pair (cycles, statuses).               *)
(*                                                                         *)
(* Time is counted in ticks of one hour; a calendar day has TicksPerDay    *)
(* ticks.  Row and cycle ids are the positions in the two sequences, as    *)
(* the SERIAL / BIGSERIAL columns hand them out.                           *)
(***************************************************************************)
EXTENDS Integers, Sequences, FiniteSets, TLC

\* ------------------------------------------------------------------ bounds
MaxTeachers == 2
MaxRespondents == 1
MaxCycles == 2
MaxRows == 2
MaxRosterRows == 6
MaxSequenceRows == 3
MaxTwoCycleRows == 4
MaxProcs == 2
TicksPerDay == 2
MaxClock == 2
MaxAttempts == 2

\* ------------------------------------------------------- program constants
Hour == 1

ReportKeyTable1Lessons == "TABLE_1_LESSONS"
ReportKeyTable3Schedule == "TABLE_3_SCHEDULE"
ReportKeyTable2OTV == "TABLE_2_OTV"

StatusPendingQuestion == "PENDING_QUESTION"
StatusAnsweredYes == "ANSWERED_YES"
StatusAnsweredNo == "ANSWERED_NO"
StatusAwaitingReminder1H == "AWAITING_REMINDER_1H"
StatusNextDayReminderSent == "NEXT_DAY_REMINDER_SENT"

CycleTypeMidMonth == "MID_MONTH"
CycleTypeEndMonth == "END_MONTH"

CycleTypes == {CycleTypeMidMonth, CycleTypeEndMonth}

\* s.managerTelegramID != 0: config.Load refuses to start without it.
ManagerConfigured == TRUE

Teachers == 1..MaxTeachers
Respondents == 1..MaxRespondents

\* sql.NullTime
NullTime == [valid |-> FALSE, time |-> 0]
ValidTime(t) == [valid |-> TRUE, time |-> t]

VARIABLES
    clock,      \* time.Now(), in ticks
    active,     \* teachers with is_active = TRUE
    cycles,     \* table notification_cycles, id = position
    statuses,   \* table teacher_report_statuses, id = position
    op,         \* the call made by the last step and what it returned
    sent,       \* messages the Telegram client delivered in the last step
    lost,       \* messages the Telegram client failed to send in the last step
    selected,   \* ids of the rows the last sweep fetched for processing
    swept,      \* ids of the rows sweepNextDay runs processed this calendar day
    proc,       \* overlapping scheduler jobs: where each one stands
    notified    \* (teacher, cycle) pairs whose completion notice reached the
                \* manager, kept by the specifications that count the notices

vars == <<clock, active, cycles, statuses, op, sent, lost, selected, swept, proc,
          notified>>

\* ----------------------------------------------------------------- helpers
\* The elements of S as a sequence, ascending by f, ties by the element.
RECURSIVE SortSet(_, _)
SortSet(S, f) ==
    IF S = {} THEN <<>>
    ELSE LET m == CHOOSE i \in S :
                    \A j \in S : f[i] < f[j] \/ (f[i] = f[j] /\ i <= j)
         IN  <<m>> \o SortSet(S \ {m}, f)

Today(now) == now \div TicksPerDay

Ids(rows) == 1..Len(rows)

Range(q) == {q[n] : n \in 1..Len(q)}

\* ------------------------------------------------------------ the messages
Question(t, c, k, id) ==
    [kind |-> "question", to |-> t, teacher |-> t, cycle |-> c, key |-> k, row |-> id]
NoAck(t, c, id) ==
    [kind |-> "ack", to |-> t, teacher |-> t, cycle |-> c, key |-> "", row |-> id]
ManagerNotice(t, c) ==
    [kind |-> "notice", to |-> 0, teacher |-> t, cycle |-> c, key |-> "", row |-> 0]
FinalReply(t, c) ==
    [kind |-> "thanks", to |-> t, teacher |-> t, cycle |-> c, key |-> "", row |-> 0]

\* The text ProcessTeacherNoResponse sends when its update failed.
ErrorNote(t, c, id) ==
    [kind |-> "error", to |-> t, teacher |-> t, cycle |-> c, key |-> "", row |-> id]

\* The (teacher, cycle) pairs of the completion notices among msgs.
Noticed(msgs) ==
    {<<msgs[n].teacher, msgs[n].cycle>> : n \in {k \in 1..Len(msgs) : msgs[k].kind = "notice"}}

\* ------------------------------------------------------ teacher repository
\* The query without its WHERE is_active = TRUE.
ListActive_IgnoresFlag(act) == SortSet(Teachers, [t \in Teachers |-> t])

\* ListActive: the active teachers in the order of the query.  Names are
\* not modelled; the order is the order of the ids.
ListActive(act) == SortSet(act, [t \in act |-> t])

\* ------------------------------------------------- notification repository
\* The lookup with cycle_type left out of the WHERE clause.
GetCycleByDateAndType_DateOnly(cs, date, type) ==
    LET m == {i \in 1..Len(cs) : cs[i].date = date}
    IN  IF m = {} THEN 0 ELSE CHOOSE i \in m : \A j \in m : j <= i

\* The cycle GetCycleByDateAndType returns, 0 for ErrCycleNotFound:
\* ORDER BY created_at DESC LIMIT 1 is the newest matching row.
GetCycleByDateAndType(cs, date, type) ==
    LET m == {i \in 1..Len(cs) : cs[i].date = date /\ cs[i].type = type}
    IN  IF m = {} THEN 0 ELSE CHOOSE i \in m : \A j \in m : j <= i

CreateCycle(cs, date, type) == Append(cs, [date |-> date, type |-> type])

\* The key with teacher_id and cycle_id compared against each other's value.
teacher_cycle_report_unique_swapped(rows, t, c, k) ==
    {i \in Ids(rows) : rows[i].teacher = c /\ rows[i].cycle = t /\ rows[i].key = k}

\* The unique index behind CONSTRAINT teacher_cycle_report_unique
\* (teacher_id, cycle_id, report_key): the rows stored under one key.  Both
\* the constraint and the lookup by the three columns go through it.
teacher_cycle_report_unique(rows, t, c, k) ==
    {i \in Ids(rows) : rows[i].teacher = t /\ rows[i].cycle = c /\ rows[i].key = k}

\* The lookup with cycle_id left out of the WHERE clause.
GetReportStatus_AnyCycle(rows, t, c, k) ==
    LET m == {i \in Ids(rows) : rows[i].teacher = t /\ rows[i].key = k}
    IN  IF m = {} THEN 0 ELSE CHOOSE i \in m : \A j \in m : i <= j

\* The id GetReportStatus returns, 0 for ErrReportStatusNotFound.
GetReportStatus(rows, t, c, k) ==
    LET m == teacher_cycle_report_unique(rows, t, c, k)
    IN  IF m = {} THEN 0 ELSE CHOOSE i \in m : \A j \in m : i <= j

\* The table without CONSTRAINT teacher_cycle_report_unique: no INSERT fails.
ViolatesUnique_NoConstraint(rows, rs) == FALSE

\* An INSERT of rs fails on the constraint.
ViolatesUnique(rows, rs) ==
    teacher_cycle_report_unique(rows, rs.teacher, rs.cycle, rs.key) # {}

RECURSIVE InsertAll(_, _)
InsertAll(rows, staged) ==
    IF staged = <<>> THEN [rows |-> rows, err |-> FALSE]
    ELSE IF ViolatesUnique(rows, Head(staged)) THEN [rows |-> rows, err |-> TRUE]
    ELSE InsertAll(Append(rows, [Head(staged) EXCEPT !.id = Len(rows) + 1]),
                   Tail(staged))

\* One transaction: the first failing INSERT returns the error and the
\* deferred Rollback drops the rows inserted before it.
BulkCreateReportStatuses(rows, staged) ==
    LET r == InsertAll(rows, staged)
    IN  IF r.err THEN [rows |-> rows, err |-> TRUE] ELSE r

\* UPDATE ... SET status, last_notified_at, response_attempts, remind_at
\* WHERE id = rs.id
UpdateReportStatus(rows, rs) ==
    [rows EXCEPT ![rs.id] = [@ EXCEPT !.status = rs.status,
                                      !.lastNotifiedAt = rs.lastNotifiedAt,
                                      !.remindAt = rs.remindAt,
                                      !.attempts = rs.attempts]]

AreAllReportsConfirmedForTeacher(rows, t, c, keys) ==
    {i \in Ids(rows) : /\ rows[i].teacher = t
                       /\ rows[i].cycle = c
                       /\ \E n \in 1..Len(keys) : keys[n] = rows[i].key
                       /\ rows[i].status # StatusAnsweredYes} = {}

\* The query without its status = $1 condition.
ListDueReminders_AnyStatus(rows, targetStatus, now) ==
    LET m == {i \in Ids(rows) : /\ rows[i].remindAt.valid
                                /\ rows[i].remindAt.time <= now}
    IN  SortSet(m, [i \in m |-> rows[i].remindAt.time])

\* The query without its remind_at <= now condition.
ListDueReminders_NoTime(rows, targetStatus, now) ==
    LET m == {i \in Ids(rows) : /\ rows[i].status = targetStatus
                                /\ rows[i].remindAt.valid}
    IN  SortSet(m, [i \in m |-> rows[i].remindAt.time])

\* WHERE status = $1 AND remind_at IS NOT NULL AND remind_at <= $2
\* ORDER BY remind_at ASC
ListDueReminders(rows, targetStatus, now) ==
    LET m == {i \in Ids(rows) : /\ rows[i].status = targetStatus
                                /\ rows[i].remindAt.valid
                                /\ rows[i].remindAt.time <= now}
    IN  SortSet(m, [i \in m |-> rows[i].remindAt.time])

\* WHERE last_notified_at >= $1 AND last_notified_at <= $2
\*   AND status = ANY($3) ORDER BY last_notified_at ASC
ListStalledStatusesFromPreviousDay(rows, considered, from, to) ==
    LET m == {i \in Ids(rows) : /\ rows[i].lastNotifiedAt.valid
                                /\ rows[i].lastNotifiedAt.time >= from
                                /\ rows[i].lastNotifiedAt.time <= to
                                /\ rows[i].status \in considered}
    IN  SortSet(m, [i \in m |-> rows[i].lastNotifiedAt.time])

\* ----------------------------------------------------------------- service
\* The keys of an END_MONTH cycle with Table 2 ahead of Table 3.
determineReportsForCycle_OtvSecond(cycleType) ==
    IF cycleType = CycleTypeMidMonth
        THEN <<ReportKeyTable1Lessons, ReportKeyTable3Schedule>>
    ELSE IF cycleType = CycleTypeEndMonth
        THEN <<ReportKeyTable1Lessons, ReportKeyTable2OTV, ReportKeyTable3Schedule>>
    ELSE <<>>

determineReportsForCycle(cycleType) ==
    IF cycleType = CycleTypeMidMonth
        THEN <<ReportKeyTable1Lessons, ReportKeyTable3Schedule>>
    ELSE IF cycleType = CycleTypeEndMonth
        THEN <<ReportKeyTable1Lessons, ReportKeyTable3Schedule, ReportKeyTable2OTV>>
    ELSE <<>>

NewReportStatus(t, cid, k) ==
    [id |-> 0, teacher |-> t, cycle |-> cid, key |-> k,
     status |-> StatusPendingQuestion, lastNotifiedAt |-> NullTime,
     remindAt |-> NullTime, attempts |-> 0]

\* What a piece of a handler leaves behind: the table, the messages
\* delivered, the messages the client failed to send, the error returned.
Outcome(rows, delivered, failed, err) ==
    [rows |-> rows, sent |-> delivered, lost |-> failed, err |-> err]

\* Step 4 of InitiateNotificationProcess, inner loop: the keys of one
\* teacher that have no row yet.
RECURSIVE StageKeys(_, _, _, _)
StageKeys(rows, t, cid, keys) ==
    IF keys = <<>> THEN <<>>
    ELSE (IF GetReportStatus(rows, t, cid, Head(keys)) # 0
             THEN <<>>
             ELSE <<NewReportStatus(t, cid, Head(keys))>>)
         \o StageKeys(rows, t, cid, Tail(keys))

\* Step 4 of InitiateNotificationProcess: statusesToCreate.
RECURSIVE StatusesToCreate(_, _, _, _)
StatusesToCreate(rows, roster, cid, keys) ==
    IF roster = <<>> THEN <<>>
    ELSE StageKeys(rows, Head(roster), cid, keys)
         \o StatusesToCreate(rows, Tail(roster), cid, keys)

\* Step 5 leaving its loop at the first failed send.
RECURSIVE SendFirstNotifications_StopsAtFailure(_, _, _, _, _)
SendFirstNotifications_StopsAtFailure(rows, roster, cid, now, okChats) ==
    IF roster = <<>> THEN Outcome(rows, <<>>, <<>>, FALSE)
    ELSE LET t == Head(roster)
             id == GetReportStatus(rows, t, cid, ReportKeyTable1Lessons)
             q == Question(t, cid, ReportKeyTable1Lessons, id)
             rest == SendFirstNotifications_StopsAtFailure(
                         IF id # 0 /\ rows[id].status = StatusPendingQuestion
                             THEN UpdateReportStatus(rows,
                                      [rows[id] EXCEPT !.lastNotifiedAt = ValidTime(now)])
                             ELSE rows,
                         Tail(roster), cid, now, okChats)
         IN  IF id = 0 \/ rows[id].status # StatusPendingQuestion
                 THEN rest
             ELSE IF t \notin okChats THEN Outcome(rows, <<>>, <<q>>, FALSE)
             ELSE Outcome(rest.rows, <<q>> \o rest.sent, rest.lost, FALSE)

\* Step 5 of InitiateNotificationProcess: the Table 1 question to every
\* teacher of the roster whose Table 1 row is PENDING_QUESTION.  okChats are
\* the teachers whose chat the Telegram client can deliver to.
RECURSIVE SendFirstNotifications(_, _, _, _, _)
SendFirstNotifications(rows, roster, cid, now, okChats) ==
    IF roster = <<>> THEN Outcome(rows, <<>>, <<>>, FALSE)
    ELSE LET t == Head(roster)
             id == GetReportStatus(rows, t, cid, ReportKeyTable1Lessons)
             q == Question(t, cid, ReportKeyTable1Lessons, id)
             one == IF id = 0 THEN Outcome(rows, <<>>, <<>>, FALSE)
                    ELSE IF rows[id].status # StatusPendingQuestion
                        THEN Outcome(rows, <<>>, <<>>, FALSE)
                    ELSE IF t \notin okChats
                        THEN Outcome(rows, <<>>, <<q>>, FALSE)
                    ELSE Outcome(UpdateReportStatus(rows,
                                     [rows[id] EXCEPT !.lastNotifiedAt = ValidTime(now)]),
                                 <<q>>, <<>>, FALSE)
             rest == SendFirstNotifications(one.rows, Tail(roster), cid, now, okChats)
         IN  Outcome(rest.rows, one.sent \o rest.sent, one.lost \o rest.lost, FALSE)

\* Steps 2 to 5 of InitiateNotificationProcess, the cycle being resolved.
InitiateForCycle(rows, act, cid, cycleType, now, okChats) ==
    LET roster == ListActive(act)
        keys == determineReportsForCycle(cycleType)
        staged == StatusesToCreate(rows, roster, cid, keys)
        created == IF staged = <<>> THEN rows
                   ELSE BulkCreateReportStatuses(rows, staged).rows
    IN  IF roster = <<>> THEN Outcome(rows, <<>>, <<>>, FALSE)
        ELSE SendFirstNotifications(created, roster, cid, now, okChats)

\* The loop of determineNextReportKey walking the keys from the last one.
RECURSIVE determineNextReportKey_FromLast(_, _, _, _)
determineNextReportKey_FromLast(rows, t, cid, keys) ==
    IF keys = <<>> THEN ""
    ELSE LET k == keys[Len(keys)]
             id == GetReportStatus(rows, t, cid, k)
         IN  IF id = 0 THEN k
             ELSE IF rows[id].status # StatusAnsweredYes THEN k
             ELSE determineNextReportKey_FromLast(rows, t, cid,
                                                  SubSeq(keys, 1, Len(keys) - 1))

\* Step 4 on a store whose existence check may fail: okChecks are the keys
\* for which GetReportStatus answers; for the others the error is logged and
\* the key is passed over.
RECURSIVE StageKeysOnStore(_, _, _, _, _)
StageKeysOnStore(rows, t, cid, keys, okChecks) ==
    IF keys = <<>> THEN <<>>
    ELSE (IF Head(keys) \notin okChecks \/ GetReportStatus(rows, t, cid, Head(keys)) # 0
             THEN <<>>
             ELSE <<NewReportStatus(t, cid, Head(keys))>>)
         \o StageKeysOnStore(rows, t, cid, Tail(keys), okChecks)

RECURSIVE StatusesToCreateOnStore(_, _, _, _, _)
StatusesToCreateOnStore(rows, roster, cid, keys, okChecks) ==
    IF roster = <<>> THEN <<>>
    ELSE StageKeysOnStore(rows, Head(roster), cid, keys, okChecks)
         \o StatusesToCreateOnStore(rows, Tail(roster), cid, keys, okChecks)

\* Steps 2 to 5 of InitiateNotificationProcess on that store.
InitiateForCycleOnStore(rows, act, cid, cycleType, now, okChecks, okChats) ==
    LET roster == ListActive(act)
        keys == determineReportsForCycle(cycleType)
        staged == StatusesToCreateOnStore(rows, roster, cid, keys, okChecks)
        created == IF staged = <<>> THEN rows
                   ELSE BulkCreateReportStatuses(rows, staged).rows
    IN  IF roster = <<>> THEN Outcome(rows, <<>>, <<>>, FALSE)
        ELSE SendFirstNotifications(created, roster, cid, now, okChats)

\* determineNextReportKey: the first key whose row is missing or not
\* ANSWERED_YES, "" when there is none.
RECURSIVE determineNextReportKey(_, _, _, _)
determineNextReportKey(rows, t, cid, keys) ==
    IF keys = <<>> THEN ""
    ELSE LET id == GetReportStatus(rows, t, cid, Head(keys))
         IN  IF id = 0 THEN Head(keys)
             ELSE IF rows[id].status # StatusAnsweredYes THEN Head(keys)
             ELSE determineNextReportKey(rows, t, cid, Tail(keys))

\* sendSpecificReportQuestion storing the wrong status constant.
sendSpecificReportQuestion_WritesYes(rows, t, cid, k, now, okRows) ==
    LET id == GetReportStatus(rows, t, cid, k)
        fail == Outcome(rows, <<>>, <<>>, TRUE)
    IN  IF id = 0 THEN fail
        ELSE IF rows[id].status # StatusPendingQuestion THEN fail
        ELSE IF id \notin okRows
            THEN Outcome(rows, <<>>, <<Question(t, cid, k, id)>>, TRUE)
        ELSE Outcome(UpdateReportStatus(rows,
                         [rows[id] EXCEPT !.lastNotifiedAt = ValidTime(now),
                                          !.status = StatusAnsweredYes]),
                     <<Question(t, cid, k, id)>>, <<>>, FALSE)

sendSpecificReportQuestion(rows, t, cid, k, now, okRows) ==
    LET id == GetReportStatus(rows, t, cid, k)
        fail == Outcome(rows, <<>>, <<>>, TRUE)
    IN  IF id = 0 THEN fail
        ELSE IF rows[id].status # StatusPendingQuestion THEN fail
        ELSE IF k \notin {ReportKeyTable1Lessons, ReportKeyTable3Schedule,
                          ReportKeyTable2OTV} THEN fail
        ELSE IF id \notin okRows
            THEN Outcome(rows, <<>>, <<Question(t, cid, k, id)>>, TRUE)
        ELSE Outcome(UpdateReportStatus(rows,
                         [rows[id] EXCEPT !.lastNotifiedAt = ValidTime(now),
                                          !.status = StatusPendingQuestion]),
                     <<Question(t, cid, k, id)>>, <<>>, FALSE)

sendManagerConfirmationAndTeacherFinalReply(rows, t, cid, okMgr, okTxt) ==
    LET mgr == IF ManagerConfigured THEN <<ManagerNotice(t, cid)>> ELSE <<>>
    IN  Outcome(rows,
                (IF okMgr THEN mgr ELSE <<>>)
                    \o (IF okTxt THEN <<FinalReply(t, cid)>> ELSE <<>>),
                (IF okMgr THEN <<>> ELSE mgr)
                    \o (IF okTxt THEN <<>> ELSE <<FinalReply(t, cid)>>),
                ~okTxt)

\* ProcessTeacherYesResponse accepting the answer only on a row still
\* PENDING_QUESTION.
YesResponse_PendingOnly(rows, cs, id, now, okRows, okMgr, okTxt) ==
    IF id \notin Ids(rows) THEN Outcome(rows, <<>>, <<>>, FALSE)
    ELSE IF rows[id].status # StatusPendingQuestion
        THEN Outcome(rows, <<>>, <<>>, FALSE)
    ELSE LET rows1 == UpdateReportStatus(rows,
                          [rows[id] EXCEPT !.status = StatusAnsweredYes])
             t == rows[id].teacher
             cid == rows[id].cycle
             keys == determineReportsForCycle(cs[cid].type)
         IN  IF AreAllReportsConfirmedForTeacher(rows1, t, cid, keys)
                 THEN sendManagerConfirmationAndTeacherFinalReply(rows1, t, cid, okMgr, okTxt)
             ELSE LET nextReportKey == determineNextReportKey(rows1, t, cid, keys)
                  IN  IF nextReportKey = ""
                          THEN sendManagerConfirmationAndTeacherFinalReply(rows1, t, cid, okMgr, okTxt)
                      ELSE sendSpecificReportQuestion(rows1, t, cid, nextReportKey, now, okRows)

\* ProcessTeacherYesResponse without its check for a row already confirmed.
YesResponse_NoDoubleClickGuard(rows, cs, id, now, okRows, okMgr, okTxt) ==
    IF id \notin Ids(rows) THEN Outcome(rows, <<>>, <<>>, FALSE)
    ELSE LET rows1 == UpdateReportStatus(rows,
                          [rows[id] EXCEPT !.status = StatusAnsweredYes])
             t == rows[id].teacher
             cid == rows[id].cycle
             keys == determineReportsForCycle(cs[cid].type)
         IN  IF AreAllReportsConfirmedForTeacher(rows1, t, cid, keys)
                 THEN sendManagerConfirmationAndTeacherFinalReply(rows1, t, cid, okMgr, okTxt)
             ELSE LET nextReportKey == determineNextReportKey(rows1, t, cid, keys)
                  IN  IF nextReportKey = ""
                          THEN sendManagerConfirmationAndTeacherFinalReply(rows1, t, cid, okMgr, okTxt)
                      ELSE sendSpecificReportQuestion(rows1, t, cid, nextReportKey, now, okRows)

\* ProcessTeacherYesResponse from the row fetched by id on.
YesResponse(rows, cs, id, now, okRows, okMgr, okTxt) ==
    IF id \notin Ids(rows) THEN Outcome(rows, <<>>, <<>>, FALSE)
    ELSE IF rows[id].status = StatusAnsweredYes
        THEN Outcome(rows, <<>>, <<>>, FALSE)
    ELSE LET rows1 == UpdateReportStatus(rows,
                          [rows[id] EXCEPT !.status = StatusAnsweredYes])
             t == rows[id].teacher
             cid == rows[id].cycle
             keys == determineReportsForCycle(cs[cid].type)
         IN  IF AreAllReportsConfirmedForTeacher(rows1, t, cid, keys)
                 THEN sendManagerConfirmationAndTeacherFinalReply(rows1, t, cid, okMgr, okTxt)
             ELSE LET nextReportKey == determineNextReportKey(rows1, t, cid, keys)
                  IN  IF nextReportKey = ""
                          THEN sendManagerConfirmationAndTeacherFinalReply(rows1, t, cid, okMgr, okTxt)
                      ELSE sendSpecificReportQuestion(rows1, t, cid, nextReportKey, now, okRows)

\* ProcessTeacherNoResponse sending the question again after the update.
NoResponse_AsksAgain(rows, id, now, okTxt) ==
    IF id \notin Ids(rows) THEN Outcome(rows, <<>>, <<>>, FALSE)
    ELSE IF rows[id].status = StatusAwaitingReminder1H
        THEN Outcome(rows, <<>>, <<>>, FALSE)
    ELSE LET q == <<Question(rows[id].teacher, rows[id].cycle, rows[id].key, id)>>
         IN  Outcome(UpdateReportStatus(rows,
                         [rows[id] EXCEPT !.status = StatusAwaitingReminder1H,
                                          !.remindAt = ValidTime(now + Hour)]),
                     IF okTxt THEN q ELSE <<>>,
                     IF okTxt THEN <<>> ELSE q,
                     FALSE)

\* ProcessTeacherNoResponse returning the lookup error for an unknown id.
NoResponse_NotFoundIsError(rows, id, now, okTxt) ==
    IF id \notin Ids(rows) THEN Outcome(rows, <<>>, <<>>, TRUE)
    ELSE IF rows[id].status = StatusAwaitingReminder1H
        THEN Outcome(rows, <<>>, <<>>, FALSE)
    ELSE LET ack == <<NoAck(rows[id].teacher, rows[id].cycle, id)>>
         IN  Outcome(UpdateReportStatus(rows,
                         [rows[id] EXCEPT !.status = StatusAwaitingReminder1H,
                                          !.remindAt = ValidTime(now + Hour)]),
                     IF okTxt THEN ack ELSE <<>>,
                     IF okTxt THEN <<>> ELSE ack,
                     FALSE)

\* ProcessTeacherNoResponse from the row fetched by id on.
NoResponse(rows, id, now, okTxt) ==
    IF id \notin Ids(rows) THEN Outcome(rows, <<>>, <<>>, FALSE)
    ELSE IF rows[id].status = StatusAwaitingReminder1H
        THEN Outcome(rows, <<>>, <<>>, FALSE)
    ELSE LET ack == <<NoAck(rows[id].teacher, rows[id].cycle, id)>>
         IN  Outcome(UpdateReportStatus(rows,
                         [rows[id] EXCEPT !.status = StatusAwaitingReminder1H,
                                          !.remindAt = ValidTime(now + Hour)]),
                     IF okTxt THEN ack ELSE <<>>,
                     IF okTxt THEN <<>> ELSE ack,
                     FALSE)

\* The loop body clearing remind_at whether or not the question went out.
Remind1HRow_ClearsOnFailure(rows, rs, now, okRows) ==
    LET r == sendSpecificReportQuestion(rows, rs.teacher, rs.cycle, rs.key, now, okRows)
    IN  Outcome(UpdateReportStatus(r.rows, [r.rows[rs.id] EXCEPT !.remindAt = NullTime]),
                r.sent, r.lost, FALSE)

\* ProcessTeacherYesResponse with the outcome of its UpdateReportStatus
\* (step 1b) an input: on an error the handler returns it, nothing written.
YesResponseStore(rows, cs, id, now, okStore, okRows, okMgr, okTxt) ==
    IF id \notin Ids(rows) THEN Outcome(rows, <<>>, <<>>, FALSE)
    ELSE IF rows[id].status = StatusAnsweredYes
        THEN Outcome(rows, <<>>, <<>>, FALSE)
    ELSE IF ~okStore THEN Outcome(rows, <<>>, <<>>, TRUE)
    ELSE YesResponse(rows, cs, id, now, okRows, okMgr, okTxt)

\* ProcessTeacherNoResponse going on to its acknowledgement although the
\* update failed.
NoResponseStore_IgnoresError(rows, id, now, okStore, okTxt) ==
    IF id \notin Ids(rows) THEN Outcome(rows, <<>>, <<>>, FALSE)
    ELSE IF rows[id].status = StatusAwaitingReminder1H
        THEN Outcome(rows, <<>>, <<>>, FALSE)
    ELSE LET ack == <<NoAck(rows[id].teacher, rows[id].cycle, id)>>
         IN  Outcome(rows, IF okTxt THEN ack ELSE <<>>,
                     IF okTxt THEN <<>> ELSE ack, FALSE)

\* ProcessTeacherNoResponse with the outcome of its UpdateReportStatus
\* (step 1b) an input: on an error the teacher is sent the error text and
\* the handler returns the error, nothing written.
NoResponseStore(rows, id, now, okStore, okTxt) ==
    IF id \notin Ids(rows) THEN Outcome(rows, <<>>, <<>>, FALSE)
    ELSE IF rows[id].status = StatusAwaitingReminder1H
        THEN Outcome(rows, <<>>, <<>>, FALSE)
    ELSE IF ~okStore
        THEN LET note == <<ErrorNote(rows[id].teacher, rows[id].cycle, id)>>
             IN  Outcome(rows, IF okTxt THEN note ELSE <<>>,
                         IF okTxt THEN <<>> ELSE note, TRUE)
    ELSE NoResponse(rows, id, now, okTxt)

\* One iteration of the loop of ProcessScheduled1HourReminders; rs is the
\* row as ListDueReminders returned it.
Remind1HRow(rows, rs, now, okRows) ==
    LET r == sendSpecificReportQuestion(rows, rs.teacher, rs.cycle, rs.key, now, okRows)
    IN  IF r.err THEN Outcome(rows, <<>>, r.lost, FALSE)
        ELSE Outcome(UpdateReportStatus(r.rows,
                         [r.rows[rs.id] EXCEPT !.remindAt = NullTime]),
                     r.sent, r.lost, FALSE)

RECURSIVE Remind1HLoop(_, _, _, _)
Remind1HLoop(rows, due, now, okRows) ==
    IF due = <<>> THEN Outcome(rows, <<>>, <<>>, FALSE)
    ELSE LET one == Remind1HRow(rows, Head(due), now, okRows)
             rest == Remind1HLoop(one.rows, Tail(due), now, okRows)
         IN  Outcome(rest.rows, one.sent \o rest.sent, one.lost \o rest.lost, FALSE)

\* The loop body writing nothing when the question could not be sent.
NextDayRow_SkipsOnFailure(rows, rs, now, okRows) ==
    LET mem == [rs EXCEPT !.status = StatusNextDayReminderSent,
                          !.attempts = @ + 1,
                          !.remindAt = NullTime]
        r == sendSpecificReportQuestion(rows, rs.teacher, rs.cycle, rs.key, now, okRows)
    IN  IF r.err THEN Outcome(rows, <<>>, r.lost, FALSE)
        ELSE Outcome(UpdateReportStatus(r.rows,
                         [r.rows[rs.id] EXCEPT !.status = StatusNextDayReminderSent,
                                               !.attempts = mem.attempts]),
                     r.sent, r.lost, FALSE)

\* The loop body without the copy of the incremented counter.
NextDayRow_NoIncrement(rows, rs, now, okRows) ==
    LET mem == [rs EXCEPT !.status = StatusNextDayReminderSent,
                          !.attempts = @ + 1,
                          !.remindAt = NullTime]
        r == sendSpecificReportQuestion(rows, rs.teacher, rs.cycle, rs.key, now, okRows)
    IN  IF r.err THEN Outcome(UpdateReportStatus(rows, mem), <<>>, r.lost, FALSE)
        ELSE Outcome(UpdateReportStatus(r.rows,
                         [r.rows[rs.id] EXCEPT !.status = StatusNextDayReminderSent]),
                     r.sent, r.lost, FALSE)

\* One iteration of the loop of ProcessNextDayReminders; rs is the row as
\* ListStalledStatusesFromPreviousDay returned it.
NextDayRow(rows, rs, now, okRows) ==
    LET mem == [rs EXCEPT !.status = StatusNextDayReminderSent,
                          !.attempts = @ + 1,
                          !.remindAt = NullTime]
        r == sendSpecificReportQuestion(rows, rs.teacher, rs.cycle, rs.key, now, okRows)
    IN  IF r.err THEN Outcome(UpdateReportStatus(rows, mem), <<>>, r.lost, FALSE)
        ELSE Outcome(UpdateReportStatus(r.rows,
                         [r.rows[rs.id] EXCEPT !.status = StatusNextDayReminderSent,
                                               !.attempts = mem.attempts]),
                     r.sent, r.lost, FALSE)

RECURSIVE NextDayLoop(_, _, _, _)
NextDayLoop(rows, stalled, now, okRows) ==
    IF stalled = <<>> THEN Outcome(rows, <<>>, <<>>, FALSE)
    ELSE LET one == NextDayRow(rows, Head(stalled), now, okRows)
             rest == NextDayLoop(one.rows, Tail(stalled), now, okRows)
         IN  Outcome(rest.rows, one.sent \o rest.sent, one.lost \o rest.lost, FALSE)

\* The rows of a list query, as the caller holds them in memory.
Fetch(rows, ids) == [n \in 1..Len(ids) |-> rows[ids[n]]]

\* ----------------------------------------------------------------- actions
Call(name, id, cid, type, err) ==
    [name |-> name, id |-> id, cycle |-> cid, type |-> type, err |-> err]

Procs == 1..MaxProcs

Idle == [pc |-> "idle", type |-> "", date |-> 0, cid |-> 0,
         roster |-> <<>>, staged |-> <<>>, fetched |-> <<>>]

Init ==
    /\ clock = 0
    /\ active = {}
    /\ cycles = <<>>
    /\ statuses = <<>>
    /\ op = Call("start", 0, 0, "", FALSE)
    /\ sent = <<>>
    /\ lost = <<>>
    /\ selected = <<>>
    /\ swept = {}
    /\ proc = [p \in Procs |-> Idle]
    /\ notified = {}

\* AdminService.AddTeacher: a new teacher is active.
AddTeacher(t) ==
    /\ t \notin active
    /\ active' = active \cup {t}
    /\ op' = Call("addTeacher", t, 0, "", FALSE)
    /\ sent' = <<>>
    /\ lost' = <<>>
    /\ selected' = <<>>
    /\ UNCHANGED <<clock, cycles, statuses, swept, proc, notified>>

\* AdminService.RemoveTeacher: is_active = FALSE, the row stays.
RemoveTeacher(t) ==
    /\ t \in active
    /\ active' = active \ {t}
    /\ op' = Call("removeTeacher", t, 0, "", FALSE)
    /\ sent' = <<>>
    /\ lost' = <<>>
    /\ selected' = <<>>
    /\ UNCHANGED <<clock, cycles, statuses, swept, proc, notified>>

Tick ==
    /\ clock' = clock + 1
    /\ swept' = IF Today(clock') = Today(clock) THEN swept ELSE {}
    /\ op' = Call("tick", 0, 0, "", FALSE)
    /\ sent' = <<>>
    /\ lost' = <<>>
    /\ selected' = <<>>
    /\ UNCHANGED <<active, cycles, statuses, proc, notified>>

\* NotificationScheduler.executeNotificationProcess calling
\* InitiateNotificationProcess(cycleType, today), no other job overlapping.
InitiateNotificationProcess(cycleType) ==
    LET date == Today(clock)
        found == GetCycleByDateAndType(cycles, date, cycleType)
        cs == IF found = 0 THEN CreateCycle(cycles, date, cycleType) ELSE cycles
        cid == IF found = 0 THEN Len(cs) ELSE found
    IN  /\ \E okChats \in SUBSET active :
              LET r == InitiateForCycle(statuses, active, cid, cycleType, clock, okChats)
              IN  /\ statuses' = r.rows
                  /\ sent' = r.sent
                  /\ lost' = r.lost
        /\ cycles' = cs
        /\ op' = Call("initiate", 0, cid, cycleType, FALSE)
        /\ selected' = <<>>
        /\ UNCHANGED <<clock, active, swept, proc, notified>>

\* InitiateNotificationProcess on a store whose existence checks may fail.
InitiateNotificationProcessOnStore(cycleType) ==
    LET date == Today(clock)
        found == GetCycleByDateAndType(cycles, date, cycleType)
        cs == IF found = 0 THEN CreateCycle(cycles, date, cycleType) ELSE cycles
        cid == IF found = 0 THEN Len(cs) ELSE found
    IN  /\ \E okChecks \in SUBSET Range(determineReportsForCycle(cycleType)),
              okChats \in SUBSET active :
              LET r == InitiateForCycleOnStore(statuses, active, cid, cycleType,
                                               clock, okChecks, okChats)
              IN  /\ statuses' = r.rows
                  /\ sent' = r.sent
                  /\ lost' = r.lost
        /\ cycles' = cs
        /\ op' = Call("initiate", 0, cid, cycleType, FALSE)
        /\ selected' = <<>>
        /\ UNCHANGED <<clock, active, swept, proc, notified>>

\* Overlapping InitiateNotificationProcess calls, one statement at a time.
\* Step 1, the lookup: GetCycleByDateAndType.
InitiateLookup(p, cycleType) ==
    LET date == Today(clock)
        found == GetCycleByDateAndType(cycles, date, cycleType)
    IN  /\ proc[p].pc = "idle"
        /\ proc' = [proc EXCEPT ![p] = [pc |-> IF found = 0 THEN "create" ELSE "stage",
                                        type |-> cycleType, date |-> date, cid |-> found,
                                        roster |-> <<>>, staged |-> <<>>,
                                        fetched |-> <<>>]]
        /\ op' = Call("initiate.lookup", 0, found, cycleType, FALSE)
        /\ sent' = <<>>
        /\ lost' = <<>>
        /\ selected' = <<>>
        /\ UNCHANGED <<clock, active, cycles, statuses, swept, notified>>

\* Step 1, after ErrCycleNotFound: CreateCycle.
InitiateCreate(p) ==
    /\ proc[p].pc = "create"
    /\ cycles' = CreateCycle(cycles, proc[p].date, proc[p].type)
    /\ proc' = [proc EXCEPT ![p].pc = "stage", ![p].cid = Len(cycles')]
    /\ op' = Call("initiate.create", 0, Len(cycles'), proc[p].type, FALSE)
    /\ sent' = <<>>
    /\ lost' = <<>>
    /\ selected' = <<>>
    /\ UNCHANGED <<clock, active, statuses, swept, notified>>

\* Steps 2 to 5 with the cycle the call resolved.
InitiateFinish(p) ==
    /\ proc[p].pc = "stage"
    /\ \E okChats \in SUBSET active :
          LET r == InitiateForCycle(statuses, active, proc[p].cid, proc[p].type,
                                    clock, okChats)
          IN  /\ statuses' = r.rows
              /\ sent' = r.sent
              /\ lost' = r.lost
    /\ proc' = [proc EXCEPT ![p] = Idle]
    /\ op' = Call("initiate", 0, proc[p].cid, proc[p].type, FALSE)
    /\ selected' = <<>>
    /\ UNCHANGED <<clock, active, cycles, swept, notified>>

\* Steps 2 to 4 up to the insert: the roster is read and the missing rows
\* are staged.  An empty roster ends the call.
InitiateStage(p) ==
    LET roster == ListActive(active)
        keys == determineReportsForCycle(proc[p].type)
    IN  /\ proc[p].pc = "stage"
        /\ proc' = [proc EXCEPT ![p] =
                        IF roster = <<>> THEN Idle
                        ELSE [@ EXCEPT !.pc = "insert",
                                       !.roster = roster,
                                       !.staged = StatusesToCreate(statuses, roster,
                                                                   proc[p].cid, keys)]]
        /\ op' = Call("initiate.stage", 0, proc[p].cid, proc[p].type, FALSE)
        /\ sent' = <<>>
        /\ lost' = <<>>
        /\ selected' = <<>>
        /\ UNCHANGED <<clock, active, cycles, statuses, swept, notified>>

\* The end of step 4 and step 5: BulkCreateReportStatuses of the staged
\* rows, its error only logged, then the first questions.
InitiateInsert(p) ==
    LET staged == proc[p].staged
        created == IF staged = <<>> THEN statuses
                   ELSE BulkCreateReportStatuses(statuses, staged).rows
    IN  /\ proc[p].pc = "insert"
        /\ \E okChats \in SUBSET Range(proc[p].roster) :
              LET r == SendFirstNotifications(created, proc[p].roster, proc[p].cid,
                                              clock, okChats)
              IN  /\ statuses' = r.rows
                  /\ sent' = r.sent
                  /\ lost' = r.lost
        /\ proc' = [proc EXCEPT ![p] = Idle]
        /\ op' = Call("initiate", 0, proc[p].cid, proc[p].type, FALSE)
        /\ selected' = <<>>
        /\ UNCHANGED <<clock, active, cycles, swept, notified>>

ProcessTeacherYesResponse(id) ==
    /\ \E okRows \in {{}, Ids(statuses)}, okMgr \in BOOLEAN, okTxt \in BOOLEAN :
          LET r == YesResponse(statuses, cycles, id, clock, okRows, okMgr, okTxt)
          IN  /\ statuses' = r.rows
              /\ sent' = r.sent
              /\ lost' = r.lost
              /\ op' = Call("processYes", id, 0, "", r.err)
    /\ selected' = <<>>
    /\ UNCHANGED <<clock, active, cycles, swept, proc, notified>>

\* ProcessTeacherYesResponse, the completion notices it delivers recorded.
ProcessTeacherYesResponseNoted(id) ==
    /\ \E okRows \in {{}, Ids(statuses)}, okMgr \in BOOLEAN, okTxt \in BOOLEAN :
          LET r == YesResponse(statuses, cycles, id, clock, okRows, okMgr, okTxt)
          IN  /\ statuses' = r.rows
              /\ sent' = r.sent
              /\ lost' = r.lost
              /\ op' = Call("processYes", id, 0, "", r.err)
    /\ selected' = <<>>
    /\ notified' = notified \cup Noticed(sent')
    /\ UNCHANGED <<clock, active, cycles, swept, proc>>

\* Two callbacks of one button, one statement at a time.  The fetch of
\* ProcessTeacherYesResponse and its check for a row already confirmed: the
\* call holds the row as it read it.
YesRead(p, id) ==
    /\ proc[p].pc = "idle"
    /\ proc' = [proc EXCEPT ![p] =
                    IF id \notin Ids(statuses) THEN Idle
                    ELSE IF statuses[id].status = StatusAnsweredYes THEN Idle
                    ELSE [Idle EXCEPT !.pc = "yes", !.fetched = <<statuses[id]>>]]
    /\ op' = Call("processYes.read", id, 0, "", FALSE)
    /\ sent' = <<>>
    /\ lost' = <<>>
    /\ selected' = <<>>
    /\ UNCHANGED <<clock, active, cycles, statuses, swept, notified>>

\* The rest of the call: the row it holds is stored as ANSWERED_YES and the
\* next action is determined and carried out.
YesCommit(p) ==
    LET rs == Head(proc[p].fetched)
    IN  /\ proc[p].pc = "yes"
        /\ \E okRows \in {{}, Ids(statuses)}, okMgr \in BOOLEAN, okTxt \in BOOLEAN :
              LET r == YesResponse(UpdateReportStatus(statuses, rs), cycles, rs.id,
                                   clock, okRows, okMgr, okTxt)
              IN  /\ statuses' = r.rows
                  /\ sent' = r.sent
                  /\ lost' = r.lost
                  /\ op' = Call("processYes", rs.id, 0, "", r.err)
        /\ proc' = [proc EXCEPT ![p] = Idle]
        /\ selected' = <<>>
        /\ notified' = notified \cup Noticed(sent')
        /\ UNCHANGED <<clock, active, cycles, swept>>

ProcessTeacherNoResponse(id) ==
    /\ \E okTxt \in BOOLEAN :
          LET r == NoResponse(statuses, id, clock, okTxt)
          IN  /\ statuses' = r.rows
              /\ sent' = r.sent
              /\ lost' = r.lost
              /\ op' = Call("processNo", id, 0, "", r.err)
    /\ selected' = <<>>
    /\ UNCHANGED <<clock, active, cycles, swept, proc, notified>>

\* The two answer handlers on a store whose UPDATE may fail.
ProcessTeacherYesResponseOnStore(id, okStore) ==
    /\ \E okRows \in {{}, Ids(statuses)}, okMgr \in BOOLEAN, okTxt \in BOOLEAN :
          LET r == YesResponseStore(statuses, cycles, id, clock, okStore,
                                    okRows, okMgr, okTxt)
          IN  /\ statuses' = r.rows
              /\ sent' = r.sent
              /\ lost' = r.lost
              /\ op' = Call("processYes", id, 0, "", r.err)
    /\ selected' = <<>>
    /\ UNCHANGED <<clock, active, cycles, swept, proc, notified>>

ProcessTeacherNoResponseOnStore(id, okStore) ==
    /\ \E okTxt \in BOOLEAN :
          LET r == NoResponseStore(statuses, id, clock, okStore, okTxt)
          IN  /\ statuses' = r.rows
              /\ sent' = r.sent
              /\ lost' = r.lost
              /\ op' = Call("processNo", id, 0, "", r.err)
    /\ selected' = <<>>
    /\ UNCHANGED <<clock, active, cycles, swept, proc, notified>>

ProcessScheduled1HourReminders ==
    LET due == ListDueReminders(statuses, StatusAwaitingReminder1H, clock)
    IN  /\ \E okRows \in SUBSET Range(due) :
              LET r == Remind1HLoop(statuses, Fetch(statuses, due), clock, okRows)
              IN  /\ statuses' = r.rows
                  /\ sent' = r.sent
                  /\ lost' = r.lost
        /\ selected' = due
        /\ op' = Call("sweepFirstReminder", 0, 0, "", FALSE)
        /\ UNCHANGED <<clock, active, cycles, swept, proc, notified>>

ProcessNextDayReminders ==
    LET startOfToday == Today(clock) * TicksPerDay
        endOfPreviousDay == startOfToday - 1
        startOfPreviousDay == startOfToday - TicksPerDay
        stalled == ListStalledStatusesFromPreviousDay(statuses,
                       {StatusPendingQuestion, StatusAwaitingReminder1H},
                       startOfPreviousDay, endOfPreviousDay)
    IN  /\ \A n \in 1..Len(stalled) : statuses[stalled[n]].attempts < MaxAttempts
        /\ \E okRows \in SUBSET Range(stalled) :
              LET r == NextDayLoop(statuses, Fetch(statuses, stalled), clock, okRows)
              IN  /\ statuses' = r.rows
                  /\ sent' = r.sent
                  /\ lost' = r.lost
        /\ selected' = stalled
        /\ swept' = swept \cup Range(stalled)
        /\ op' = Call("sweepNextDay", 0, 0, "", FALSE)
        /\ UNCHANGED <<clock, active, cycles, proc, notified>>

\* The sweeps one statement at a time, so that an answer can arrive while a
\* sweep runs.  The list query of ProcessScheduled1HourReminders: the job
\* holds the rows as the query returned them.
Sweep1HFetch(p) ==
    LET due == ListDueReminders(statuses, StatusAwaitingReminder1H, clock)
    IN  /\ proc[p].pc = "idle"
        /\ proc' = [proc EXCEPT ![p] =
                        IF due = <<>> THEN Idle
                        ELSE [Idle EXCEPT !.pc = "remind1h",
                                          !.fetched = Fetch(statuses, due)]]
        /\ selected' = due
        /\ op' = Call("sweepFirstReminder.fetch", 0, 0, "", FALSE)
        /\ sent' = <<>>
        /\ lost' = <<>>
        /\ UNCHANGED <<clock, active, cycles, statuses, swept, notified>>

\* One iteration of the loop of ProcessScheduled1HourReminders.
Sweep1HRow(p) ==
    LET rs == Head(proc[p].fetched)
    IN  /\ proc[p].pc = "remind1h"
        /\ \E okRows \in {{}, {rs.id}} :
              LET r == Remind1HRow(statuses, rs, clock, okRows)
              IN  /\ statuses' = r.rows
                  /\ sent' = r.sent
                  /\ lost' = r.lost
        /\ proc' = [proc EXCEPT ![p] =
                        IF Tail(proc[p].fetched) = <<>> THEN Idle
                        ELSE [@ EXCEPT !.fetched = Tail(@)]]
        /\ selected' = <<rs.id>>
        /\ op' = Call("sweepFirstReminder.row", rs.id, 0, "", FALSE)
        /\ UNCHANGED <<clock, active, cycles, swept, notified>>

\* The list query of ProcessNextDayReminders.
SweepNextDayFetch(p) ==
    LET startOfToday == Today(clock) * TicksPerDay
        endOfPreviousDay == startOfToday - 1
        startOfPreviousDay == startOfToday - TicksPerDay
        stalled == ListStalledStatusesFromPreviousDay(statuses,
                       {StatusPendingQuestion, StatusAwaitingReminder1H},
                       startOfPreviousDay, endOfPreviousDay)
    IN  /\ proc[p].pc = "idle"
        /\ \A n \in 1..Len(stalled) : statuses[stalled[n]].attempts < MaxAttempts
        /\ proc' = [proc EXCEPT ![p] =
                        IF stalled = <<>> THEN Idle
                        ELSE [Idle EXCEPT !.pc = "nextday",
                                          !.fetched = Fetch(statuses, stalled)]]
        /\ selected' = stalled
        /\ swept' = swept \cup Range(stalled)
        /\ op' = Call("sweepNextDay.fetch", 0, 0, "", FALSE)
        /\ sent' = <<>>
        /\ lost' = <<>>
        /\ UNCHANGED <<clock, active, cycles, statuses, notified>>

\* One iteration of the loop of ProcessNextDayReminders.
SweepNextDayRow(p) ==
    LET rs == Head(proc[p].fetched)
    IN  /\ proc[p].pc = "nextday"
        /\ \E okRows \in {{}, {rs.id}} :
              LET r == NextDayRow(statuses, rs, clock, okRows)
              IN  /\ statuses' = r.rows
                  /\ sent' = r.sent
                  /\ lost' = r.lost
        /\ proc' = [proc EXCEPT ![p] =
                        IF Tail(proc[p].fetched) = <<>> THEN Idle
                        ELSE [@ EXCEPT !.fetched = Tail(@)]]
        /\ selected' = <<rs.id>>
        /\ op' = Call("sweepNextDay.row", rs.id, 0, "", FALSE)
        /\ UNCHANGED <<clock, active, cycles, swept, notified>>

\* The loop body of ProcessNextDayReminders in its two halves.  First half:
\* the in-memory update and sendSpecificReportQuestion, which sends and
\* stores last_notified_at; when it fails the attempt is stored and the loop
\* moves on.
SweepNextDayAsk(p) ==
    LET rs == Head(proc[p].fetched)
        mem == [rs EXCEPT !.status = StatusNextDayReminderSent,
                          !.attempts = @ + 1,
                          !.remindAt = NullTime]
    IN  /\ proc[p].pc = "nextday"
        /\ \E okRows \in {{}, {rs.id}} :
              LET r == sendSpecificReportQuestion(statuses, rs.teacher, rs.cycle,
                                                  rs.key, clock, okRows)
              IN  /\ statuses' = IF r.err THEN UpdateReportStatus(statuses, mem)
                                 ELSE r.rows
                  /\ sent' = r.sent
                  /\ lost' = r.lost
                  /\ proc' = [proc EXCEPT ![p] =
                                  IF ~r.err THEN [@ EXCEPT !.pc = "nextday.mark"]
                                  ELSE IF Tail(proc[p].fetched) = <<>> THEN Idle
                                  ELSE [@ EXCEPT !.fetched = Tail(@)]]
        /\ selected' = <<rs.id>>
        /\ op' = Call("sweepNextDay.ask", rs.id, 0, "", FALSE)
        /\ UNCHANGED <<clock, active, cycles, swept, notified>>

\* Second half, after a successful send: the row is fetched again and
\* stored as NEXT_DAY_REMINDER_SENT with the incremented counter.
SweepNextDayMark(p) ==
    LET rs == Head(proc[p].fetched)
    IN  /\ proc[p].pc = "nextday.mark"
        /\ statuses' = UpdateReportStatus(statuses,
                            [statuses[rs.id] EXCEPT !.status = StatusNextDayReminderSent,
                                                    !.attempts = rs.attempts + 1])
        /\ proc' = [proc EXCEPT ![p] =
                        IF Tail(proc[p].fetched) = <<>> THEN Idle
                        ELSE [@ EXCEPT !.pc = "nextday", !.fetched = Tail(@)]]
        /\ selected' = <<rs.id>>
        /\ op' = Call("sweepNextDay.mark", rs.id, 0, "", FALSE)
        /\ sent' = <<>>
        /\ lost' = <<>>
        /\ UNCHANGED <<clock, active, cycles, swept, notified>>

\* The deadline of the job's context (context.WithTimeout) passes while the
\* sweep runs: every store call from here on returns the context's error,
\* the loop logs it and the job ends without another write.
SweepTimeout(p) ==
    /\ proc[p].pc \in {"remind1h", "nextday", "nextday.mark"}
    /\ proc' = [proc EXCEPT ![p] = Idle]
    /\ selected' = <<Head(proc[p].fetched).id>>
    /\ op' = Call("sweep.timeout", Head(proc[p].fetched).id, 0, proc[p].pc, FALSE)
    /\ sent' = <<>>
    /\ lost' = <<>>
    /\ UNCHANGED <<clock, active, cycles, statuses, swept, notified>>

\* The service with its handlers running one after another, the roster
\* drawn from Respondents.
Next ==
    \/ \E t \in Respondents : AddTeacher(t)
    \/ \E t \in Respondents : RemoveTeacher(t)
    \/ Tick /\ clock' <= MaxClock
    \/ \E cycleType \in CycleTypes :
          /\ InitiateNotificationProcess(cycleType)
          /\ Len(cycles') <= MaxCycles
          /\ Len(statuses') <= MaxRows
    \/ \E id \in 1..(Len(statuses) + 1) : ProcessTeacherYesResponse(id)
    \/ \E id \in 1..(Len(statuses) + 1) :
          ProcessTeacherNoResponse(id) /\ clock + Hour <= MaxClock
    \/ ProcessScheduled1HourReminders
    \/ ProcessNextDayReminders

Spec == Init /\ [][Next]_vars

\* The roster and the scheduler's initiate jobs alone: no answers, no sweeps.
NextInitiate ==
    \/ \E t \in Teachers : AddTeacher(t)
    \/ \E t \in Teachers : RemoveTeacher(t)
    \/ Tick /\ clock' <= MaxClock
    \/ \E cycleType \in CycleTypes :
          /\ InitiateNotificationProcess(cycleType)
          /\ Len(cycles') <= MaxCycles
          /\ Len(statuses') <= MaxRosterRows

SpecInitiate == Init /\ [][NextInitiate]_vars

\* One MID_MONTH cycle followed through its answers and both sweeps, a No
\* accepted at any time of the day.
NextEscalation ==
    \/ \E t \in Respondents : AddTeacher(t)
    \/ Tick /\ clock' <= MaxClock
    \/ /\ InitiateNotificationProcess(CycleTypeMidMonth)
       /\ Len(cycles') <= MaxCycles
       /\ Len(statuses') <= MaxRows
    \/ \E id \in 1..(Len(statuses) + 1) : ProcessTeacherYesResponse(id)
    \/ \E id \in 1..(Len(statuses) + 1) : ProcessTeacherNoResponse(id)
    \/ ProcessScheduled1HourReminders
    \/ ProcessNextDayReminders

SpecEscalation == Init /\ [][NextEscalation]_vars

\* Cycles of both types answered question by question within one hour: room
\* for the three rows of an END_MONTH cycle, no sweeps.
NextSequence ==
    \/ \E t \in Respondents : AddTeacher(t)
    \/ \E t \in Respondents : RemoveTeacher(t)
    \/ \E cycleType \in CycleTypes :
          /\ InitiateNotificationProcess(cycleType)
          /\ Len(cycles') <= MaxCycles
          /\ Len(statuses') <= MaxSequenceRows
    \/ \E id \in 1..(Len(statuses) + 1) : ProcessTeacherYesResponse(id)
    \/ \E id \in 1..(Len(statuses) + 1) :
          ProcessTeacherNoResponse(id) /\ clock + Hour <= MaxClock

SpecSequence == Init /\ [][NextSequence]_vars

\* Initiate jobs that overlap: each statement of step 1 is a step of its own.
NextOverlap ==
    \/ \E t \in Teachers : AddTeacher(t)
    \/ Tick /\ clock' <= MaxClock
    \/ \E p \in Procs, cycleType \in CycleTypes : InitiateLookup(p, cycleType)
    \/ \E p \in Procs : InitiateCreate(p) /\ Len(cycles') <= MaxCycles
    \/ \E p \in Procs : InitiateFinish(p) /\ Len(statuses') <= MaxRosterRows

SpecOverlap == Init /\ [][NextOverlap]_vars

\* Overlapping mid-month initiate jobs with the insert of the staged rows a
\* step of its own, while the roster grows.
NextOverlapInsert ==
    \/ \E t \in Teachers : AddTeacher(t)
    \/ \E p \in Procs : InitiateLookup(p, CycleTypeMidMonth)
    \/ \E p \in Procs : InitiateCreate(p) /\ Len(cycles') <= MaxCycles
    \/ \E p \in Procs : InitiateStage(p)
    \/ \E p \in Procs : InitiateInsert(p) /\ Len(statuses') <= MaxRosterRows

SpecOverlapInsert == Init /\ [][NextOverlapInsert]_vars

\* One MID_MONTH cycle with answers arriving between the statements of the
\* two sweeps.
NextSweepOverlap ==
    \/ \E t \in Respondents : AddTeacher(t)
    \/ Tick /\ clock' <= MaxClock
    \/ /\ InitiateNotificationProcess(CycleTypeMidMonth)
       /\ Len(cycles') <= MaxCycles
       /\ Len(statuses') <= MaxRows
    \/ \E id \in Ids(statuses) : ProcessTeacherYesResponse(id)
    \/ \E id \in Ids(statuses) :
          ProcessTeacherNoResponse(id) /\ clock + Hour <= MaxClock
    \/ \E p \in Procs : Sweep1HFetch(p)
    \/ \E p \in Procs : Sweep1HRow(p)
    \/ \E p \in Procs : SweepNextDayFetch(p)
    \/ \E p \in Procs : SweepNextDayRow(p)

SpecSweepOverlap == Init /\ [][NextSweepOverlap]_vars

\* The handlers one after another on a store whose UPDATE in the answer
\* handlers may fail.
NextStoreFailure ==
    \/ \E t \in Respondents : AddTeacher(t)
    \/ Tick /\ clock' <= MaxClock
    \/ /\ InitiateNotificationProcess(CycleTypeMidMonth)
       /\ Len(cycles') <= MaxCycles
       /\ Len(statuses') <= MaxRows
    \/ \E id \in 1..(Len(statuses) + 1), okStore \in BOOLEAN :
          ProcessTeacherYesResponseOnStore(id, okStore)
    \/ \E id \in 1..(Len(statuses) + 1), okStore \in BOOLEAN :
          ProcessTeacherNoResponseOnStore(id, okStore) /\ clock + Hour <= MaxClock
    \/ ProcessScheduled1HourReminders
    \/ ProcessNextDayReminders

SpecStoreFailure == Init /\ [][NextStoreFailure]_vars

\* One sweep job at a time, its context running out at any statement;
\* answers arrive while no sweep runs.
NoSweepRunning == \A q \in Procs : proc[q].pc = "idle"

NextSweepTimeout ==
    \/ \E t \in Respondents : AddTeacher(t)
    \/ Tick /\ clock' <= MaxClock
    \/ /\ InitiateNotificationProcess(CycleTypeMidMonth)
       /\ Len(cycles') <= MaxCycles
       /\ Len(statuses') <= MaxRows
    \/ \E id \in Ids(statuses) :
          /\ NoSweepRunning
          /\ ProcessTeacherNoResponse(id)
          /\ clock + Hour <= MaxClock
    \/ \E p \in Procs : NoSweepRunning /\ Sweep1HFetch(p)
    \/ \E p \in Procs : Sweep1HRow(p)
    \/ \E p \in Procs : NoSweepRunning /\ SweepNextDayFetch(p)
    \/ \E p \in Procs : SweepNextDayAsk(p)
    \/ \E p \in Procs : SweepNextDayMark(p)
    \/ \E p \in Procs : SweepTimeout(p)

SpecSweepTimeout == Init /\ [][NextSweepTimeout]_vars

\* MID_MONTH cycles of two days side by side, the rows of the first still
\* unresolved when the second starts.
NextTwoCycles ==
    \/ \E t \in Respondents : AddTeacher(t)
    \/ Tick /\ clock' <= MaxClock
    \/ /\ InitiateNotificationProcess(CycleTypeMidMonth)
       /\ Len(cycles') <= MaxCycles
       /\ Len(statuses') <= MaxTwoCycleRows
    \/ \E id \in 1..(Len(statuses) + 1) : ProcessTeacherYesResponse(id)
    \/ \E id \in 1..(Len(statuses) + 1) :
          ProcessTeacherNoResponse(id) /\ clock + Hour <= MaxClock
    \/ ProcessScheduled1HourReminders
    \/ ProcessNextDayReminders

SpecTwoCycles == Init /\ [][NextTwoCycles]_vars

\* A MID_MONTH cycle started on a store whose existence checks may fail,
\* and answered.
NextStagingFailure ==
    \/ \E t \in Respondents : AddTeacher(t)
    \/ Tick /\ clock' <= MaxClock
    \/ /\ InitiateNotificationProcessOnStore(CycleTypeMidMonth)
       /\ Len(cycles') <= MaxCycles
       /\ Len(statuses') <= MaxRows
    \/ \E id \in 1..(Len(statuses) + 1) : ProcessTeacherYesResponse(id)
    \/ \E id \in 1..(Len(statuses) + 1) :
          ProcessTeacherNoResponse(id) /\ clock + Hour <= MaxClock

SpecStagingFailure == Init /\ [][NextStagingFailure]_vars

\* One MID_MONTH cycle with every click and both sweeps, the notices that
\* reach the manager recorded.
NextNotices ==
    \/ \E t \in Respondents : AddTeacher(t)
    \/ Tick /\ clock' <= MaxClock
    \/ /\ InitiateNotificationProcess(CycleTypeMidMonth)
       /\ Len(cycles') <= MaxCycles
       /\ Len(statuses') <= MaxRows
    \/ \E id \in 1..(Len(statuses) + 1) : ProcessTeacherYesResponseNoted(id)
    \/ \E id \in 1..(Len(statuses) + 1) :
          ProcessTeacherNoResponse(id) /\ clock + Hour <= MaxClock
    \/ ProcessScheduled1HourReminders
    \/ ProcessNextDayReminders

SpecNotices == Init /\ [][NextNotices]_vars

\* The Yes button of a delivered question pressed twice, the two callbacks
\* overlapping.
NextDoubleClick ==
    \/ \E t \in Respondents : AddTeacher(t)
    \/ Tick /\ clock' <= MaxClock
    \/ /\ InitiateNotificationProcess(CycleTypeMidMonth)
       /\ Len(cycles') <= MaxCycles
       /\ Len(statuses') <= MaxRows
    \/ \E p \in Procs, id \in Ids(statuses) :
          statuses[id].lastNotifiedAt.valid /\ YesRead(p, id)
    \/ \E p \in Procs : YesCommit(p)

SpecDoubleClick == Init /\ [][NextDoubleClick]_vars

\* One MID_MONTH cycle left to the scheduler: the teacher presses the Yes
\* button of the questions that were delivered, the jobs do the rest.
NextTimers ==
    \/ \E t \in Respondents : AddTeacher(t)
    \/ Tick /\ clock' <= MaxClock
    \/ /\ InitiateNotificationProcess(CycleTypeMidMonth)
       /\ Len(cycles') <= MaxCycles
       /\ Len(statuses') <= MaxRows
    \/ \E id \in Ids(statuses) :
          statuses[id].lastNotifiedAt.valid /\ ProcessTeacherYesResponse(id)
    \/ ProcessScheduled1HourReminders
    \/ ProcessNextDayReminders

\* Time passes up to the last day of the model, and the cron engine goes on
\* triggering the two reminder jobs: each of them runs again and again with
\* the transport up.  The initiate job has its one day in the month.
FairTimers ==
    /\ WF_vars(Tick /\ clock' <= MaxClock)
    /\ []<><<op'.name = "sweepFirstReminder" /\ lost' = <<>>>>_vars
    /\ []<><<op'.name = "sweepNextDay" /\ lost' = <<>>>>_vars

SpecTimers == Init /\ [][NextTimers]_vars /\ FairTimers

TypeOK ==
    /\ clock \in 0..MaxClock
    /\ active \subseteq Teachers
    /\ Len(cycles) <= MaxCycles
    /\ Len(statuses) <= MaxRosterRows
    /\ \A i \in Ids(statuses) : statuses[i].id = i
    /\ \A p \in Procs : proc[p].pc \in {"idle", "create", "stage", "insert", "remind1h", "nextday",
                                      "nextday.mark", "yes"}

\* ------------------------------------------------------------------ claims
\* C1: whatever the roster and however often initiate has run, one after
\* another, the table holds at most one row per (teacher, cycle, report key).
C1_AtMostOneRowPerKey ==
    \A i, j \in Ids(statuses) :
        (/\ statuses[i].teacher = statuses[j].teacher
         /\ statuses[i].cycle = statuses[j].cycle
         /\ statuses[i].key = statuses[j].key) => i = j

\* C1 witness: initiate has just run again for a cycle whose rows, of two
\* teachers, an earlier call created and notified.
C1_RepeatedInitiate ==
    /\ op.name = "initiate"
    /\ \E i \in Ids(statuses) : /\ statuses[i].cycle = op.cycle
                                /\ statuses[i].lastNotifiedAt.valid
                                /\ statuses[i].lastNotifiedAt.time < clock
    /\ Cardinality({statuses[i].teacher :
                       i \in {j \in Ids(statuses) : statuses[j].cycle = op.cycle}}) = 2

\* C2: with initiate calls running one after another there is one cycle row
\* per (date, type), and a call works on the row that holds its date and type:
\* the one the first call for that pair created.
C2_OneCyclePerDateAndType ==
    /\ \A i, j \in 1..Len(cycles) : cycles[i] = cycles[j] => i = j
    /\ op.name = "initiate" =>
          /\ op.cycle \in 1..Len(cycles)
          /\ cycles[op.cycle] = [date |-> Today(clock), type |-> op.type]

\* C2 witness: an initiate call has just used a cycle that is not the newest
\* row, so an earlier call created it.
C2_LaterCallUsesFirstCycle ==
    /\ op.name = "initiate"
    /\ op.cycle \in 1..Len(cycles)
    /\ op.cycle < Len(cycles)

\* C3: when two initiate calls for the same (date, type) overlap, both
\* looking the cycle up before either creates it, there is still at most one
\* cycle row for the pair.
C3_OverlapOneCycle ==
    \A i, j \in 1..Len(cycles) : cycles[i] = cycles[j] => i = j

\* C4: a step that changes a row's status to ANSWERED_YES is processYes
\* called with that row's id; no step creates a row as ANSWERED_YES.
C4_OnlyProcessYesConfirms ==
    [][/\ \A i \in Ids(statuses) :
             (/\ i \in Ids(statuses')
              /\ statuses[i].status # StatusAnsweredYes
              /\ statuses'[i].status = StatusAnsweredYes)
                => (op'.name = "processYes" /\ op'.id = i)
       /\ \A i \in Ids(statuses') \ Ids(statuses) :
             statuses'[i].status # StatusAnsweredYes]_vars

\* C4 witness: processYes has just confirmed a row and the next question or
\* the completion messages went out.
C4_YesRecorded ==
    /\ op.name = "processYes"
    /\ op.id \in Ids(statuses)
    /\ statuses[op.id].status = StatusAnsweredYes
    /\ sent # <<>>

\* The row of teacher t in cycle c for key k, 0 when there is none.
RowOf(t, c, k) ==
    LET m == {i \in Ids(statuses) : /\ statuses[i].teacher = t
                                    /\ statuses[i].cycle = c
                                    /\ statuses[i].key = k}
    IN  IF m = {} THEN 0 ELSE CHOOSE i \in m : TRUE

\* Teacher t was asked and has confirmed both reports of the MID_MONTH
\* cycle c.
MidMonthDone(t, c) ==
    /\ cycles[c].type = CycleTypeMidMonth
    /\ \A k \in {ReportKeyTable1Lessons, ReportKeyTable3Schedule} :
          /\ RowOf(t, c, k) # 0
          /\ statuses[RowOf(t, c, k)].status = StatusAnsweredYes
          /\ statuses[RowOf(t, c, k)].lastNotifiedAt.valid

\* The step is processYes on row id, a row of teacher t in a MID_MONTH cycle
\* whose Table 1 and Table 3 rows exist, and no send of the step failed.
MidMonthYes(t, id) ==
    /\ op'.name = "processYes"
    /\ op'.id = id
    /\ statuses[id].teacher = t
    /\ cycles[statuses[id].cycle].type = CycleTypeMidMonth
    /\ RowOf(t, statuses[id].cycle, ReportKeyTable1Lessons) # 0
    /\ RowOf(t, statuses[id].cycle, ReportKeyTable3Schedule) # 0
    /\ lost' = <<>>

\* initiate of a MID_MONTH cycle new to the only active teacher t asks Table 1.
C5_InitiateAsksTable1(t) ==
    (/\ op'.name = "initiate"
     /\ op'.type = CycleTypeMidMonth
     /\ active = {t}
     /\ RowOf(t, op'.cycle, ReportKeyTable1Lessons) = 0
     /\ lost' = <<>>)
       => \E i \in Ids(statuses') :
             /\ statuses'[i].teacher = t
             /\ statuses'[i].cycle = op'.cycle
             /\ statuses'[i].key = ReportKeyTable1Lessons
             /\ sent' = <<Question(t, op'.cycle, ReportKeyTable1Lessons, i)>>

\* processYes on the pending Table 1 row asks Table 3 and nothing else.
C5_YesOnTable1AsksTable3(t, id) ==
    LET c == statuses[id].cycle
        t3 == RowOf(t, c, ReportKeyTable3Schedule)
    IN  (/\ MidMonthYes(t, id)
         /\ id = RowOf(t, c, ReportKeyTable1Lessons)
         /\ statuses[id].status = StatusPendingQuestion
         /\ statuses[t3].status = StatusPendingQuestion)
           => sent' = <<Question(t, c, ReportKeyTable3Schedule, t3)>>

\* processYes on the pending Table 3 row, Table 1 confirmed, sends one
\* manager notice and one thank-you.
C5_YesOnTable3Completes(t, id) ==
    LET c == statuses[id].cycle
        t1 == RowOf(t, c, ReportKeyTable1Lessons)
    IN  (/\ MidMonthYes(t, id)
         /\ id = RowOf(t, c, ReportKeyTable3Schedule)
         /\ statuses[id].status = StatusPendingQuestion
         /\ statuses[t1].status = StatusAnsweredYes)
           => sent' = <<ManagerNotice(t, c), FinalReply(t, c)>>

\* With both reports of cycle c confirmed, a step whose sends succeed sends
\* nothing about teacher t and cycle c.
C5_SilentAfterCompletion(t, c) ==
    (MidMonthDone(t, c) /\ lost' = <<>>)
      => \A n \in 1..Len(sent') : ~(sent'[n].teacher = t /\ sent'[n].cycle = c)

\* C5: a MID_MONTH cycle with one active teacher and every send succeeding:
\* initiate asks Table 1; processYes on Table 1 asks Table 3 and tells the
\* manager nothing; processYes on Table 3 sends exactly one manager notice
\* and one thank-you; after that no operation, later sweeps included, sends
\* another message about that teacher and cycle.
C5_MidMonthHappyPath ==
    [][\A t \in Teachers :
          /\ C5_InitiateAsksTable1(t)
          /\ \A id \in Ids(statuses) : /\ C5_YesOnTable1AsksTable3(t, id)
                                       /\ C5_YesOnTable3Completes(t, id)
          /\ \A c \in 1..Len(cycles) : C5_SilentAfterCompletion(t, c)]_vars

\* The first three parts of C5 alone.
C5_UpToCompletion ==
    [][\A t \in Teachers :
          /\ C5_InitiateAsksTable1(t)
          /\ \A id \in Ids(statuses) : /\ C5_YesOnTable1AsksTable3(t, id)
                                       /\ C5_YesOnTable3Completes(t, id)]_vars

\* C6: processNo on a PENDING_QUESTION row stores ANSWERED_NO, sets remind_at
\* to the time of the call plus one hour and adds one to response_attempts.
C6_NoOnPendingRow ==
    [][\A id \in Ids(statuses) :
          (/\ op'.name = "processNo"
           /\ op'.id = id
           /\ statuses[id].status = StatusPendingQuestion)
            => /\ statuses'[id].status = StatusAnsweredNo
               /\ statuses'[id].remindAt = ValidTime(clock + Hour)
               /\ statuses'[id].attempts = statuses[id].attempts + 1]_vars

\* The row answered No whose remind_at has passed, as processNo leaves it.
DueAfterNo(id) ==
    /\ statuses[id].status \in {StatusAnsweredNo, StatusAwaitingReminder1H}
    /\ statuses[id].remindAt.valid
    /\ statuses[id].remindAt.time <= clock

\* C7: sweepFirstReminder, its sends succeeding, re-sends to a row answered
\* No whose remind_at has passed the same question bound to the same row id
\* and leaves the row AWAITING_REMINDER_1H, remind_at null and
\* last_notified_at the time of the sweep.
C7_SweepResendsQuestion ==
    [][\A id \in Ids(statuses) :
          (/\ op'.name = "sweepFirstReminder"
           /\ DueAfterNo(id)
           /\ lost' = <<>>)
            => /\ \E n \in 1..Len(sent') :
                     sent'[n] = Question(statuses[id].teacher, statuses[id].cycle,
                                         statuses[id].key, id)
               /\ statuses'[id].status = StatusAwaitingReminder1H
               /\ statuses'[id].remindAt = NullTime
               /\ statuses'[id].lastNotifiedAt = ValidTime(clock)]_vars

\* C8: sweepFirstReminder running before a row's remind_at does not select
\* the row, sends nothing for it and leaves it as it was.
C8_EarlySweepSkipsRow ==
    [][\A id \in Ids(statuses) :
          (/\ op'.name = "sweepFirstReminder"
           /\ statuses[id].remindAt.valid
           /\ clock < statuses[id].remindAt.time)
            => /\ id \notin Range(selected')
               /\ \A n \in 1..Len(sent') : sent'[n].row # id
               /\ \A n \in 1..Len(lost') : lost'[n].row # id
               /\ statuses'[id] = statuses[id]]_vars

\* C8 witness: a sweep has just run while a row answered No was waiting for
\* a remind_at still ahead.
C8_SweepBeforeRemindAt ==
    /\ op.name = "sweepFirstReminder"
    /\ \E id \in Ids(statuses) : /\ statuses[id].status = StatusAwaitingReminder1H
                                 /\ statuses[id].remindAt.valid
                                 /\ clock < statuses[id].remindAt.time

C10_NextDayReminder ==
    [][\A id \in Ids(statuses) :
          (/\ op'.name = "sweepNextDay"
           /\ statuses[id].status = StatusPendingQuestion
           /\ statuses[id].lastNotifiedAt.valid
           /\ Today(statuses[id].lastNotifiedAt.time) = Today(clock) - 1
           /\ \A n \in 1..Len(lost') : lost'[n].row # id)
            => /\ \E n \in 1..Len(sent') :
                     sent'[n] = Question(statuses[id].teacher, statuses[id].cycle,
                                         statuses[id].key, id)
               /\ statuses'[id].status = StatusNextDayReminderSent
               /\ statuses'[id].attempts = statuses[id].attempts + 1]_vars

\* C10 witness: sweepNextDay has just re-sent a question: the row is
\* NEXT_DAY_REMINDER_SENT, counted once, notified at the time of the sweep,
\* and the question is among the messages delivered.
C10_NextDayReminderSent ==
    /\ op.name = "sweepNextDay"
    /\ \E id \in Ids(statuses) :
          /\ statuses[id].status = StatusNextDayReminderSent
          /\ statuses[id].attempts = 1
          /\ statuses[id].lastNotifiedAt = ValidTime(clock)
          /\ \E n \in 1..Len(sent) : sent[n].row = id /\ sent[n].kind = "question"

\* C11: a row that a sweepNextDay run has processed is not selected, messaged
\* or modified by a later sweepNextDay run of the same calendar day.
C11_OncePerDay ==
    [][op'.name = "sweepNextDay"
          => \A id \in swept :
                /\ id \notin Range(selected')
                /\ \A n \in 1..Len(sent') : sent'[n].row # id
                /\ \A n \in 1..Len(lost') : lost'[n].row # id
                /\ statuses'[id] = statuses[id]]_vars

\* C12: a row that is NEXT_DAY_REMINDER_SENT never returns to a status that
\* sweepNextDay selects and no sweepNextDay run selects it, so that it gets
\* at most one next-day reminder.
C12_NextDayReminderIsFinal ==
    [][\A id \in Ids(statuses) :
          statuses[id].status = StatusNextDayReminderSent
            => /\ statuses'[id].status \notin {StatusPendingQuestion,
                                               StatusAwaitingReminder1H}
               /\ op'.name = "sweepNextDay" => id \notin Range(selected')]_vars

\* C13: processYes on a row that is already ANSWERED_YES returns success,
\* sends nothing to the teacher or the manager and changes no row.
C13_SecondYesIsNoOp ==
    [][\A id \in Ids(statuses) :
          (/\ op'.name = "processYes"
           /\ op'.id = id
           /\ statuses[id].status = StatusAnsweredYes)
            => /\ ~op'.err
               /\ sent' = <<>>
               /\ lost' = <<>>
               /\ statuses' = statuses]_vars

\* C13 witness: processYes has just returned success on a confirmed row
\* without any message: an accepted Yes always sends or fails.
C13_SecondYesIgnored ==
    /\ op.name = "processYes"
    /\ op.id \in Ids(statuses)
    /\ statuses[op.id].status = StatusAnsweredYes
    /\ ~op.err
    /\ sent = <<>>
    /\ lost = <<>>

\* The position of key k in the sequence keys, 0 when it is not in it.
KeyIndex(keys, k) ==
    IF \E n \in 1..Len(keys) : keys[n] = k
        THEN CHOOSE n \in 1..Len(keys) : keys[n] = k
        ELSE 0

\* The report keys in the fixed order of the questions.
QuestionOrder(cycleType) ==
    IF cycleType = CycleTypeEndMonth
        THEN <<ReportKeyTable1Lessons, ReportKeyTable3Schedule, ReportKeyTable2OTV>>
        ELSE <<ReportKeyTable1Lessons, ReportKeyTable3Schedule>>

\* The ids of the rows of teacher t in cycle c, in table rows.
RowsIn(rows, t, c) ==
    {i \in Ids(rows) : rows[i].teacher = t /\ rows[i].cycle = c}

\* initiate for a cycle in which the active teacher t has no row creates one
\* row per key of the cycle type and no other row for t.
C14_InitiateCreatesRows(t) ==
    LET c == op'.cycle
        keys == QuestionOrder(op'.type)
    IN  (/\ op'.name = "initiate"
         /\ t \in active
         /\ RowsIn(statuses, t, c) = {})
           => /\ Cardinality(RowsIn(statuses', t, c)) = Len(keys)
              /\ \A n \in 1..Len(keys) :
                    \E i \in RowsIn(statuses', t, c) : statuses'[i].key = keys[n]

\* processYes, its sends succeeding, on the row of the n-th key when the
\* rows before it are confirmed and the rows after it still pending: the
\* question of the next key and nothing else, or after the last key the
\* manager notice and the thank-you.
C14_YesAsksNextKey(id) ==
    LET t == statuses[id].teacher
        c == statuses[id].cycle
        keys == QuestionOrder(cycles[c].type)
        n == KeyIndex(keys, statuses[id].key)
        row(m) == CHOOSE i \in RowsIn(statuses, t, c) : statuses[i].key = keys[m]
    IN  (/\ op'.name = "processYes"
         /\ op'.id = id
         /\ lost' = <<>>
         /\ statuses[id].status = StatusPendingQuestion
         /\ \A m \in 1..Len(keys) :
               \E i \in RowsIn(statuses, t, c) : statuses[i].key = keys[m]
         /\ \A m \in 1..(n - 1) : statuses[row(m)].status = StatusAnsweredYes
         /\ \A m \in (n + 1)..Len(keys) :
               statuses[row(m)].status = StatusPendingQuestion)
           => IF n < Len(keys)
                  THEN sent' = <<Question(t, c, keys[n + 1], row(n + 1))>>
                  ELSE sent' = <<ManagerNotice(t, c), FinalReply(t, c)>>

\* A question or the completion notice goes out of initiate or processYes
\* only when the rows of all the keys before it are confirmed.
C14_InOrder ==
    op'.name \in {"initiate", "processYes"}
      => \A q \in 1..Len(sent') :
            LET msg == sent'[q]
                keys == QuestionOrder(cycles'[msg.cycle].type)
                upto == IF msg.kind = "question" THEN KeyIndex(keys, msg.key) - 1
                        ELSE Len(keys)
            IN  \A m \in 1..upto :
                   \E i \in RowsIn(statuses', msg.teacher, msg.cycle) :
                      /\ statuses'[i].key = keys[m]
                      /\ statuses'[i].status = StatusAnsweredYes

C15_NextQuestion ==
    [][\A id \in Ids(statuses) :
          LET t == statuses[id].teacher
              c == statuses[id].cycle
              keys == QuestionOrder(cycles[c].type)
              row(m) == CHOOSE i \in RowsIn(statuses, t, c) : statuses[i].key = keys[m]
              open == {m \in 1..Len(keys) :
                          row(m) # id /\ statuses[row(m)].status # StatusAnsweredYes}
              first == CHOOSE m \in open : \A o \in open : m <= o
          IN  (/\ op'.name = "processYes"
               /\ op'.id = id
               /\ lost' = <<>>
               /\ statuses[id].status # StatusAnsweredYes
               /\ \A m \in 1..Len(keys) :
                     \E i \in RowsIn(statuses, t, c) : statuses[i].key = keys[m]
               /\ open # {})
                 => /\ sent' = <<Question(t, c, keys[first], row(first))>>
                    /\ statuses'[row(first)].status = StatusPendingQuestion
                    /\ statuses'[row(first)].lastNotifiedAt = ValidTime(clock)]_vars

\* C16: processNo on a row that is ANSWERED_NO, AWAITING_REMINDER_1H or
\* NEXT_DAY_REMINDER_SENT leaves its status, remind_at and response_attempts
\* as they were: no reminder is re-armed.
C16_NoOnEscalatedRow ==
    [][\A id \in Ids(statuses) :
          (/\ op'.name = "processNo"
           /\ op'.id = id
           /\ statuses[id].status \in {StatusAnsweredNo, StatusAwaitingReminder1H,
                                        StatusNextDayReminderSent})
            => /\ statuses'[id].status = statuses[id].status
               /\ statuses'[id].remindAt = statuses[id].remindAt
               /\ statuses'[id].attempts = statuses[id].attempts]_vars

\* The table with row id put back to PENDING_QUESTION.
AsPending(id) ==
    [statuses EXCEPT ![id].status = StatusPendingQuestion]

\* processYes on row id, its sends succeeding, the teacher's rows of the
\* cycle all there: the completion messages when the other rows are
\* confirmed, the question of the first open row when that row is
\* PENDING_QUESTION.
C17_Continues(id) ==
    LET t == statuses[id].teacher
        c == statuses[id].cycle
        keys == QuestionOrder(cycles[c].type)
        row(m) == CHOOSE i \in RowsIn(statuses, t, c) : statuses[i].key = keys[m]
        open == {m \in 1..Len(keys) :
                    row(m) # id /\ statuses[row(m)].status # StatusAnsweredYes}
        first == CHOOSE m \in open : \A o \in open : m <= o
    IN  (/\ lost' = <<>>
         /\ \A m \in 1..Len(keys) :
               \E i \in RowsIn(statuses, t, c) : statuses[i].key = keys[m])
           => /\ open = {} => sent' = <<ManagerNotice(t, c), FinalReply(t, c)>>
              /\ (open # {} /\ statuses[row(first)].status = StatusPendingQuestion)
                    => sent' = <<Question(t, c, keys[first], row(first))>>

\* C17: processYes on a row in any status but ANSWERED_YES is accepted: the
\* row becomes ANSWERED_YES, the next question or the completion messages go
\* out, and the messages, the other rows and the result are those of the
\* same call on the same table with the row PENDING_QUESTION.
C17_YesFromAnyStatus ==
    [][\A id \in Ids(statuses) :
          (/\ op'.name = "processYes"
           /\ op'.id = id
           /\ statuses[id].status # StatusAnsweredYes)
            => /\ statuses'[id].status = StatusAnsweredYes
               /\ C17_Continues(id)
               /\ \E okRows \in {{}, Ids(statuses)}, okMgr \in BOOLEAN, okTxt \in BOOLEAN :
                     LET r == YesResponse(AsPending(id), cycles, id, clock,
                                          okRows, okMgr, okTxt)
                     IN  /\ statuses' = r.rows
                         /\ sent' = r.sent
                         /\ lost' = r.lost
                         /\ op'.err = r.err]_vars

\* C17 witness: processYes has just been accepted on a row that had been
\* answered No (remind_at still set) and a message went out.
C17_YesAfterNo ==
    /\ op.name = "processYes"
    /\ op.id \in Ids(statuses)
    /\ statuses[op.id].status = StatusAnsweredYes
    /\ statuses[op.id].remindAt.valid
    /\ sent # <<>>

\* C18: processNo sends no question and changes no row but the one whose id
\* it was called with.
C18_NoDoesNotAdvance ==
    [][op'.name = "processNo"
          => /\ \A n \in 1..Len(sent') : sent'[n].kind # "question"
             /\ \A n \in 1..Len(lost') : lost'[n].kind # "question"
             /\ Len(statuses') = Len(statuses)
             /\ \A j \in Ids(statuses) : j # op'.id => statuses'[j] = statuses[j]]_vars

\* C18 witness: processNo has just been accepted on a row while another row
\* of the table is waiting, and the acknowledgement went out.
C18_NoAccepted ==
    /\ op.name = "processNo"
    /\ op.id \in Ids(statuses)
    /\ statuses[op.id].status = StatusAwaitingReminder1H
    /\ statuses[op.id].remindAt = ValidTime(clock + Hour)
    /\ \E j \in Ids(statuses) : j # op.id /\ statuses[j].status = StatusPendingQuestion
    /\ sent = <<NoAck(statuses[op.id].teacher, statuses[op.id].cycle, op.id)>>

\* C19: processYes and processNo called with an id no row has return
\* success, change no row and send nothing.
C19_UnknownIdIsSwallowed ==
    [][(op'.name \in {"processYes", "processNo"} /\ op'.id \notin Ids(statuses))
          => /\ ~op'.err
             /\ statuses' = statuses
             /\ sent' = <<>>
             /\ lost' = <<>>]_vars

\* C19 witness: an answer has just arrived for an id beyond the rows of a
\* table that is not empty.
C19_StaleCallback ==
    /\ op.name \in {"processYes", "processNo"}
    /\ statuses # <<>>
    /\ op.id \notin Ids(statuses)

\* C20: when BulkCreateReportStatuses meets a row that already exists, the
\* other staged rows are still persisted: after the insert step every staged
\* row is in the table.
C20_BulkCreateKeepsSiblings ==
    [][\A p \in Procs :
          (proc[p].pc = "insert" /\ proc'[p].pc = "idle")
            => \A n \in 1..Len(proc[p].staged) :
                  \E i \in Ids(statuses') :
                     /\ statuses'[i].teacher = proc[p].staged[n].teacher
                     /\ statuses'[i].cycle = proc[p].staged[n].cycle
                     /\ statuses'[i].key = proc[p].staged[n].key]_vars

\* C21: initiate called again for a cycle that exists, every active teacher
\* having all the rows of the cycle and a Table 1 row already notified,
\* creates no row, changes no row and sends no message.
C21_Settled(cid, cycleType) ==
    LET keys == determineReportsForCycle(cycleType)
    IN  /\ active # {}
        /\ \A t \in active :
              /\ \A n \in 1..Len(keys) : GetReportStatus(statuses, t, cid, keys[n]) # 0
              /\ statuses[GetReportStatus(statuses, t, cid,
                                          ReportKeyTable1Lessons)].lastNotifiedAt.valid

C21_RepeatedInitiateIsNoOp ==
    [][(/\ op'.name = "initiate"
        /\ op'.cycle \in 1..Len(cycles)
        /\ C21_Settled(op'.cycle, op'.type))
            => /\ statuses' = statuses
               /\ sent' = <<>>
               /\ lost' = <<>>]_vars

\* C22: with no active teacher initiate returns success, creates no row,
\* changes no row and sends no message.
C22_EmptyRosterNoEffect ==
    [][(op'.name = "initiate" /\ active = {})
            => /\ ~op'.err
               /\ statuses' = statuses
               /\ sent' = <<>>
               /\ lost' = <<>>]_vars

\* C22 witness: initiate has just run with nobody active, the rows of an
\* earlier cycle of a teacher since removed still in the table.
C22_InitiateWithoutTeachers ==
    /\ op.name = "initiate"
    /\ active = {}
    /\ statuses # <<>>

\* C23: in initiate every active teacher whose Table 1 row is
\* PENDING_QUESTION is sent the question, whichever sends fail: a delivered
\* question sets last_notified_at = now, a failed one leaves last_notified_at
\* as it was (null on a new row); all the rows of the roster are in the table
\* and initiate returns success.
C23_Asked(t, cid) ==
    LET id == GetReportStatus(statuses', t, cid, ReportKeyTable1Lessons)
        q == Question(t, cid, ReportKeyTable1Lessons, id)
    IN  /\ id # 0
        /\ statuses'[id].status = StatusPendingQuestion
              => \/ /\ q \in Range(sent')
                    /\ q \notin Range(lost')
                    /\ statuses'[id].lastNotifiedAt = ValidTime(clock)
                 \/ /\ q \in Range(lost')
                    /\ q \notin Range(sent')
                    /\ statuses'[id].lastNotifiedAt =
                          IF id \in Ids(statuses) THEN statuses[id].lastNotifiedAt
                          ELSE NullTime

C23_FailedSendIsIsolated ==
    [][op'.name = "initiate"
            => /\ ~op'.err
               /\ \A t \in active :
                     /\ C23_Asked(t, op'.cycle)
                     /\ \A n \in 1..Len(determineReportsForCycle(op'.type)) :
                           GetReportStatus(statuses', t, op'.cycle,
                               determineReportsForCycle(op'.type)[n]) # 0]_vars

\* C23 witness: initiate has just created the rows of two teachers; the
\* send to the first failed, the second was asked and is marked notified.
C23_SecondAskedAfterFailure ==
    /\ op.name = "initiate"
    /\ Len(lost) = 1
    /\ Len(sent) = 1
    /\ lost[1].to < sent[1].to
    /\ lost[1].row \in Ids(statuses)
    /\ ~statuses[lost[1].row].lastNotifiedAt.valid
    /\ statuses[sent[1].row].lastNotifiedAt = ValidTime(clock)

C25_SweepKeepsAnswer ==
    [][op'.name \in {"sweepFirstReminder.row", "sweepNextDay.row"}
            => \A i \in Ids(statuses) :
                  statuses[i].status = StatusAnsweredYes
                      => statuses'[i].status = StatusAnsweredYes]_vars

\* C26: with initiate calls for one cycle overlapping, each staging its rows
\* before the other inserts, every row of the table is the only one of its
\* (teacher, cycle, report key).
C26_NoDuplicateUnderOverlap ==
    \A i \in Ids(statuses) :
        {j \in Ids(statuses) : /\ statuses[j].teacher = statuses[i].teacher
                               /\ statuses[j].cycle = statuses[i].cycle
                               /\ statuses[j].key = statuses[i].key} = {i}

\* C26 witness: one call has just inserted its rows while the other call,
\* for the same cycle, holds the same rows staged for its own insert.
C26_StagedRowAlreadyInserted ==
    /\ op.name = "initiate"
    /\ \E p \in Procs :
          /\ proc[p].pc = "insert"
          /\ proc[p].cid = op.cycle
          /\ \E n \in 1..Len(proc[p].staged) :
                GetReportStatus(statuses, proc[p].staged[n].teacher,
                                proc[p].staged[n].cycle, proc[p].staged[n].key) # 0

\* C27: a row answered Yes after a No, its remind_at still stored and
\* elapsed, is not fetched by sweepFirstReminder: no reminder is sent for it
\* and no field of it changes.
C27_NoReminderAfterYes ==
    [][op'.name = "sweepFirstReminder"
            => \A i \in Ids(statuses) :
                  (/\ statuses[i].status = StatusAnsweredYes
                   /\ statuses[i].remindAt.valid
                   /\ statuses[i].remindAt.time <= clock)
                      => /\ i \notin Range(selected')
                         /\ \A m \in Range(sent') \cup Range(lost') : m.row # i
                         /\ statuses'[i] = statuses[i]]_vars

\* C27 witness: sweepFirstReminder has just run at or after the remind_at of
\* a row that was answered No and then Yes.
C27_SweepAfterYes ==
    /\ op.name = "sweepFirstReminder"
    /\ \E i \in Ids(statuses) : /\ statuses[i].status = StatusAnsweredYes
                                /\ statuses[i].remindAt.valid
                                /\ statuses[i].remindAt.time <= clock

\* C28: sweepNextDay, its sends succeeding, asks the question of a fetched
\* AWAITING_REMINDER_1H row again, stores NEXT_DAY_REMINDER_SENT, sets
\* last_notified_at to now and adds one to response_attempts.
C28_NextDayAfterNo ==
    [][(op'.name = "sweepNextDay" /\ lost' = <<>>)
            => \A n \in 1..Len(selected') :
                  LET i == selected'[n]
                  IN  statuses[i].status = StatusAwaitingReminder1H
                        => /\ Question(statuses[i].teacher, statuses[i].cycle,
                                       statuses[i].key, i) \in Range(sent')
                           /\ statuses'[i].status = StatusNextDayReminderSent
                           /\ statuses'[i].lastNotifiedAt = ValidTime(clock)
                           /\ statuses'[i].attempts = statuses[i].attempts + 1]_vars

\* C29: when the update of the row fails in processYes or processNo, the
\* handler returns an error and the row keeps its status, remind_at and
\* response_attempts.
C29_FailedUpdateIsReported ==
    [][\A id \in Ids(statuses) :
          (\/ /\ ProcessTeacherYesResponseOnStore(id, FALSE)
              /\ statuses[id].status # StatusAnsweredYes
           \/ /\ ProcessTeacherNoResponseOnStore(id, FALSE)
              /\ statuses[id].status # StatusAwaitingReminder1H)
            => /\ op'.err
               /\ statuses'[id].status = statuses[id].status
               /\ statuses'[id].remindAt = statuses[id].remindAt
               /\ statuses'[id].attempts = statuses[id].attempts]_vars

\* C29 witness: processNo on a PENDING_QUESTION row has just returned an
\* error, the row still PENDING_QUESTION with no remind_at.
C29_NoFailedOnUpdate ==
    /\ op.name = "processNo"
    /\ op.err
    /\ op.id \in Ids(statuses)
    /\ statuses[op.id].status = StatusPendingQuestion
    /\ ~statuses[op.id].remindAt.valid

\* C30: every message delivered to a teacher is a question, the
\* acknowledgement of a No or the final thank-you; none reports an error.
C30_NoErrorTextToTeacher ==
    \A n \in 1..Len(sent) :
        sent[n].to # 0 => sent[n].kind \in {"question", "ack", "thanks"}

\* C31: a row sweepNextDay fetched and whose question it failed to send is
\* stored as NEXT_DAY_REMINDER_SENT with response_attempts one higher and
\* last_notified_at as it was.
C31_FailedNextDayIsRecorded ==
    [][op'.name = "sweepNextDay"
            => \A n \in 1..Len(selected') :
                  LET i == selected'[n]
                  IN  Question(statuses[i].teacher, statuses[i].cycle,
                               statuses[i].key, i) \notin Range(sent')
                        => /\ statuses'[i].status = StatusNextDayReminderSent
                           /\ statuses'[i].attempts = statuses[i].attempts + 1
                           /\ statuses'[i].lastNotifiedAt = statuses[i].lastNotifiedAt]_vars

\* C31 witness: sweepNextDay has just failed to deliver the question of a
\* row; the row is NEXT_DAY_REMINDER_SENT, an attempt counted, its
\* last_notified_at still of the day before.
C31_NextDaySendFailed ==
    /\ op.name = "sweepNextDay"
    /\ Len(lost) = 1
    /\ statuses[lost[1].row].status = StatusNextDayReminderSent
    /\ statuses[lost[1].row].attempts = 1
    /\ statuses[lost[1].row].lastNotifiedAt.valid
    /\ Today(statuses[lost[1].row].lastNotifiedAt.time) < Today(clock)

\* C32: the row a sweep was working on when its deadline passed is either
\* as a sweep that never touched it would find it, still due for the same
\* sweep, or as a completed iteration leaves it.
C32_StillDue(i, pc) ==
    IF pc = "remind1h"
        THEN i \in Range(ListDueReminders(statuses, StatusAwaitingReminder1H, clock))
    ELSE i \in Range(ListStalledStatusesFromPreviousDay(statuses,
                         {StatusPendingQuestion, StatusAwaitingReminder1H},
                         Today(clock) * TicksPerDay - TicksPerDay,
                         Today(clock) * TicksPerDay - 1))

C32_FullyProcessed(i, pc) ==
    IF pc = "remind1h"
        THEN statuses[i].status = StatusPendingQuestion /\ ~statuses[i].remindAt.valid
    ELSE statuses[i].status = StatusNextDayReminderSent

C32_TimeoutLeavesNoHalfDoneRow ==
    op.name = "sweep.timeout"
        => C32_StillDue(op.id, op.type) \/ C32_FullyProcessed(op.id, op.type)

\* C33: the questions go out in the order Table 1, Table 3, Table 2: in
\* the step that gives a row its first last_notified_at, the rows of all
\* earlier keys of the same teacher and cycle are ANSWERED_YES.
C33_FirstAsked(i) ==
    /\ statuses'[i].lastNotifiedAt.valid
    /\ i \in Ids(statuses) => ~statuses[i].lastNotifiedAt.valid

C33_EarlierConfirmed(i) ==
    LET order == QuestionOrder(cycles'[statuses'[i].cycle].type)
    IN  \A n \in 1..(KeyIndex(order, statuses'[i].key) - 1) :
            LET j == GetReportStatus(statuses', statuses'[i].teacher,
                                     statuses'[i].cycle, order[n])
            IN  j # 0 /\ statuses'[j].status = StatusAnsweredYes

C33_FixedOrder ==
    [][\A i \in Ids(statuses') : C33_FirstAsked(i) => C33_EarlierConfirmed(i)]_vars

\* C33 witness: processYes has just delivered the Table 2 question, the
\* last of an END_MONTH cycle.
C33_LastQuestionAsked ==
    /\ op.name = "processYes"
    /\ Len(sent) = 1
    /\ sent[1].kind = "question"
    /\ sent[1].key = ReportKeyTable2OTV
    /\ statuses[sent[1].row].lastNotifiedAt.valid

\* C34: processYes and processNo on a row change no row of another cycle,
\* initiate changes no row of a cycle other than its own, and a sweep
\* changes no row it did not fetch.
C34_ScopedToCycle ==
    [][/\ (op'.name \in {"processYes", "processNo"} /\ op'.id \in Ids(statuses))
            => \A i \in Ids(statuses) :
                  statuses[i].cycle # statuses[op'.id].cycle
                      => statuses'[i] = statuses[i]
       /\ op'.name = "initiate"
            => \A i \in Ids(statuses) :
                  statuses[i].cycle # op'.cycle => statuses'[i] = statuses[i]
       /\ op'.name \in {"sweepFirstReminder", "sweepNextDay"}
            => \A i \in Ids(statuses) :
                  i \notin Range(selected') => statuses'[i] = statuses[i]]_vars

\* C34 witness: processYes has just confirmed a row of the second cycle
\* while the same teacher's Table 1 row of the first cycle, asked the day
\* before, is still unanswered.
C34_YesInSecondCycle ==
    /\ op.name = "processYes"
    /\ op.id \in Ids(statuses)
    /\ statuses[op.id].status = StatusAnsweredYes
    /\ statuses[op.id].cycle = 2
    /\ \E j \in Ids(statuses) :
          /\ statuses[j].cycle = 1
          /\ statuses[j].teacher = statuses[op.id].teacher
          /\ statuses[j].lastNotifiedAt.valid
          /\ statuses[j].status # StatusAnsweredYes

\* C35: with the handlers running one after another, a row stored as
\* ANSWERED_YES keeps that status through every later operation.
C35_AnsweredYesIsAbsorbing ==
    [][\A i \in Ids(statuses) :
          statuses[i].status = StatusAnsweredYes
              => statuses'[i].status = StatusAnsweredYes]_vars

\* C36: a completion notice for a teacher and a cycle goes to the manager
\* only when every key of the cycle's type has a row of that teacher and
\* each of these rows is ANSWERED_YES.
C36_NoticeOnlyWhenAllConfirmed ==
    \A n \in 1..Len(sent) :
        sent[n].kind = "notice"
            => LET keys == determineReportsForCycle(cycles[sent[n].cycle].type)
               IN  \A k \in 1..Len(keys) :
                       LET j == GetReportStatus(statuses, sent[n].teacher,
                                                sent[n].cycle, keys[k])
                       IN  j # 0 /\ statuses[j].status = StatusAnsweredYes

\* C37: with the handlers running one after another, whatever buttons are
\* pressed, no completion notice is delivered to the manager for a teacher
\* and cycle that already had one.
C37_OneNoticePerCycle ==
    [][\A n \in 1..Len(sent') :
          sent'[n].kind = "notice"
              => <<sent'[n].teacher, sent'[n].cycle>> \notin notified]_vars

\* C38: of two overlapping processYes calls for one row, the one that
\* writes second delivers neither a completion notice the manager already
\* has nor a question the teacher was already asked.
C38_DoubleClickAnsweredOnce ==
    [][(op'.name = "processYes" /\ op'.id \in Ids(statuses)
        /\ statuses[op'.id].status = StatusAnsweredYes)
            => \A n \in 1..Len(sent') :
                   /\ sent'[n].kind = "notice"
                         => <<sent'[n].teacher, sent'[n].cycle>> \notin notified
                   /\ sent'[n].kind = "question"
                         => ~statuses[sent'[n].row].lastNotifiedAt.valid]_vars

\* C39: when an initiate with a non-empty roster returns, every teacher of
\* its roster has a row for every report of the cycle, whether the rows were
\* there before or another initiate inserted some of them meanwhile.
C39_RosterFullyStaged ==
    [][\A p \in Procs :
          (proc[p].pc = "insert" /\ proc'[p].pc = "idle" /\ ~op'.err)
            => \A t \in Range(proc[p].roster) :
                  \A k \in Range(determineReportsForCycle(proc[p].type)) :
                     \E i \in Ids(statuses') :
                        /\ statuses'[i].teacher = t
                        /\ statuses'[i].cycle = proc[p].cid
                        /\ statuses'[i].key = k]_vars

\* C40: when processYes has stored ANSWERED_YES and the send of the next
\* question failed, with a day of the model still ahead, the timers firing
\* and their sends succeeding, that question is eventually delivered.
C40_UnaskedQuestionIsAsked ==
    \A i \in 1..MaxRows :
        (/\ op.name = "processYes"
         /\ clock < TicksPerDay
         /\ op.id \in Ids(statuses)
         /\ statuses[op.id].status = StatusAnsweredYes
         /\ \E n \in 1..Len(lost) : lost[n].kind = "question" /\ lost[n].row = i)
        ~> (\E n \in 1..Len(sent) : sent[n].kind = "question" /\ sent[n].row = i)

====
